---- MODULE Spec2Model ----
(***************************************************************************)
(* Synthesis of the infiquetra-aws-infra CDK applications: the GitHub OIDC *)
(* bootstrap stack (provider, deploy role, managed policies), the          *)
(* Organizations stack (organizational units, service-control policies)    *)
(* and the SSO stack (permission sets).                                    *)
(*                                                                         *)
(* A Python string is modelled as the sequence of its tokens: the string   *)
(* is cut at every ":", "/" and "*", and each separator is a token of its  *)
(* own, so "repo:infiquetra/*" is <<"repo", ":", "infiquetra", "/", "*">>. *)
(* The empty string is <<>>.  An optional value (None or a string) is a    *)
(* record [some, val].                                                     *)
(***************************************************************************)
EXTENDS Integers, Sequences, FiniteSets, TLC

\* ---------------------------------------------------------------- strings

Range(s) == {s[i] : i \in 1..Len(s)}

\* "<service>:<name>", the form of every IAM action string in the source
Act(service, name) == <<service, ":", name>>

None == [some |-> FALSE, val |-> <<>>]
Some(s) == [some |-> TRUE, val |-> s]

\* Python truthiness of an optional string: None and "" are falsy
Truthy(o) == o.some /\ o.val # <<>>

\* os.environ.get(name, default)
EnvironGet(env, name, default) == IF env[name].some THEN env[name] ELSE default

\* Wildcard match of IAM's StringLike (and of action / resource patterns):
\* "*" matches any run of tokens, every other token matches itself.
RECURSIVE Like(_, _)
Like(pattern, s) ==
    IF pattern = <<>> THEN s = <<>>
    ELSE IF Head(pattern) = "*"
         THEN Like(Tail(pattern), s) \/ (s # <<>> /\ Like(pattern, Tail(s)))
         ELSE s # <<>> /\ Head(s) = Head(pattern) /\ Like(Tail(pattern), Tail(s))

\* ------------------------------------------------------------ bounds, inputs

\* longest subject claim (in tokens) of a presented web-identity token
MaxSubLen == 4

SubAlphabet == {"repo", ":", "infiquetra", "/"}

RECURSIVE SeqsUpTo(_, _)
SeqsUpTo(S, n) ==
    IF n = 0 THEN {<<>>}
    ELSE LET shorter == SeqsUpTo(S, n - 1)
         IN shorter \cup {Append(s, x) : s \in {t \in shorter : Len(t) = n - 1}, x \in S}

TestAccount == <<"123456789012">>
TestRegion == <<"us-east-1">>

OwnerArgs == {None, Some(<<>>), Some(<<"acme">>), Some(<<"ac", "/", "me">>)}
RepoArgs == {None, Some(<<>>), Some(<<"widget">>), Some(<<"wid", "/", "get">>)}
EnvOwners == {None, Some(<<>>), Some(<<"octo">>)}
EnvRepos == {None, Some(<<>>), Some(<<"gadget">>)}
EnvAccounts == {None, Some(<<>>), Some(<<"645166163764">>)}
EnvRegions == {None, Some(<<>>), Some(<<"eu-west-1">>)}
ContextAccounts == {None, Some(TestAccount)}

\* env= of a directly constructed stack: Environment(account, region)
StackEnvs ==
    { [account |-> Some(TestAccount), region |-> Some(TestRegion)],
      [account |-> None, region |-> Some(TestRegion)],
      [account |-> Some(<<>>), region |-> Some(TestRegion)],
      [account |-> Some(TestAccount), region |-> None],
      [account |-> Some(TestAccount), region |-> Some(<<>>)] }

Audiences == {<<"sts.amazonaws.com">>, <<"api.github.com">>}
WebIdentityTokens ==
    [aud : Audiences, sub : SeqsUpTo(SubAlphabet, MaxSubLen) \cup
                            { <<"repo", ":", "infiquetra", "/", "infiquetra-aws-infra", ":", "ref", ":", "refs", "/", "heads", "/", "main">>,
                              <<"repo", ":", "infiquetra", "/", "other-repo", ":", "pull_request">>,
                              <<"repo", ":", "infiquetra-x", "/", "r", ":", "ref">>,
                              <<"repo", ":", "acme", "/", "widget", ":", "ref", ":", "refs", "/", "heads", "/", "main">> }]

\* ------------------------------------------------------- CloudFormation tokens

\* cdk.Aws.ACCOUNT_ID and cdk.Aws.REGION: pseudo parameters, resolved at deploy time
AwsAccountId == <<"${AWS::AccountId}">>
AwsRegion == <<"${AWS::Region}">>

\* ------------------------------------------------------------------- state

VARIABLES
    program,      \* which entry point runs: "bootstrap_app", "construct", "organizations_app"
    environ,      \* os.environ (after load_dotenv): the variables the code reads
    context,      \* CDK context: the 'account' context parameter
    kwargs,       \* arguments of GitHubOIDCStack(...): github_owner, repo_name, env
    pc,           \* position in the construction
    self,         \* attributes of the GitHubOIDCStack instance
    provider,     \* OIDC providers declared in the stack (sequence, creation order)
    roles,        \* IAM roles declared in the stack
    policies,     \* managed policies declared in the stack
    outputs,      \* CfnOutputs of the stack
    metadata,     \* node metadata of the stack
    tags,         \* tags applied to the stack scope
    error,        \* message of the raised ValueError, <<>> when none
    synthesized,  \* app.synth() / Template.from_stack produced a document
    request,      \* the sts:AssumeRoleWithWebIdentity call made against the deployed role
    org_self,     \* attributes of the OrganizationStack instance
    ous,          \* organizational units declared in the OrganizationStack
    scps,         \* service-control policies declared in the OrganizationStack
    org_outputs,  \* CfnOutputs of the OrganizationStack
    sso_self,     \* attributes of the SSOStack instance
    permission_sets, \* permission sets declared in the SSOStack
    sso_outputs,  \* CfnOutputs of the SSOStack
    dependencies, \* stack dependencies declared in the app: <<dependent, dependency>> pairs
    applied       \* the stacks provisioned so far, in the order they were applied

bootstrapVars == <<self, provider, roles, policies, outputs, metadata, tags, request>>
orgVars == <<org_self, ous, scps, org_outputs>>
ssoVars == <<sso_self, permission_sets, sso_outputs>>
deployVars == <<dependencies, applied>>

vars == <<program, environ, context, kwargs, pc, error, synthesized,
          bootstrapVars, orgVars, ssoVars, deployVars>>

NoSelf == [github_owner |-> <<>>, repo_name |-> <<>>, repo_full_name |-> <<>>,
           account |-> <<>>, region |-> <<>>]
NoKwargs == [github_owner |-> None, repo_name |-> None, account |-> None, region |-> None]
NoRequest == [made |-> FALSE, aud |-> <<>>, sub |-> <<>>, allowed |-> FALSE]

InitBootstrapApp ==
    /\ program = "bootstrap_app"
    /\ environ \in [GITHUB_OWNER : EnvOwners, GITHUB_REPO : EnvRepos,
                    CDK_DEFAULT_ACCOUNT : EnvAccounts, CDK_DEFAULT_REGION : EnvRegions]
    /\ context \in [account : ContextAccounts]
    /\ kwargs = NoKwargs
    /\ pc = "app"

InitConstruct ==
    /\ program = "construct"
    /\ environ \in [GITHUB_OWNER : EnvOwners, GITHUB_REPO : EnvRepos,
                    CDK_DEFAULT_ACCOUNT : {None}, CDK_DEFAULT_REGION : {None}]
    /\ context = [account |-> None]
    /\ \E o \in OwnerArgs, r \in RepoArgs, e \in StackEnvs :
          kwargs = [github_owner |-> o, repo_name |-> r,
                    account |-> e.account, region |-> e.region]
    /\ pc = "stack_init"

InitOrganizationsApp ==
    /\ program = "organizations_app"
    /\ environ \in [GITHUB_OWNER : {None}, GITHUB_REPO : {None},
                    CDK_DEFAULT_ACCOUNT : EnvAccounts, CDK_DEFAULT_REGION : EnvRegions]
    /\ context = [account |-> None]
    /\ kwargs = NoKwargs
    /\ pc = "app"

Init ==
    /\ InitBootstrapApp \/ InitConstruct \/ InitOrganizationsApp
    /\ org_self = {}
    /\ ous = <<>>
    /\ scps = <<>>
    /\ org_outputs = <<>>
    /\ sso_self = {}
    /\ permission_sets = <<>>
    /\ sso_outputs = <<>>
    /\ dependencies = {}
    /\ applied = <<>>
    /\ self = NoSelf
    /\ provider = <<>>
    /\ roles = <<>>
    /\ policies = <<>>
    /\ outputs = <<>>
    /\ metadata = <<>>
    /\ tags = <<>>
    /\ error = <<>>
    /\ synthesized = FALSE
    /\ request = NoRequest

\* a raised exception ends the program: nothing after the raise runs
Raise(message) ==
    /\ pc' = "error"
    /\ error' = message

\* --------------------------------------------- github-oidc-bootstrap/app.py

\* PRIMARY_ACCOUNT = os.environ.get("CDK_DEFAULT_ACCOUNT", app.node.try_get_context("account"))
PRIMARY_ACCOUNT(env, ctx) == EnvironGet(env, "CDK_DEFAULT_ACCOUNT", ctx.account)

\* DEFAULT_REGION = os.environ.get("CDK_DEFAULT_REGION", "us-east-1")
DEFAULT_REGION(env) == EnvironGet(env, "CDK_DEFAULT_REGION", Some(<<"us-east-1">>))

\* app.py up to the GitHubOIDCStack(...) call: resolve the environment, raise
\* when no account is given, otherwise call the constructor with env=env
BootstrapApp ==
    /\ pc = "app"
    /\ program = "bootstrap_app"
    /\ IF ~Truthy(PRIMARY_ACCOUNT(environ, context))
       THEN /\ Raise(<<"Account ID must be provided">>)
            /\ UNCHANGED kwargs
       ELSE /\ kwargs' = [github_owner |-> None, repo_name |-> None,
                          account |-> PRIMARY_ACCOUNT(environ, context),
                          region |-> DEFAULT_REGION(environ)]
            /\ pc' = "stack_init"
            /\ UNCHANGED error
    /\ UNCHANGED <<deployVars, orgVars, ssoVars, program, environ, context, self, provider, roles, policies,
                   outputs, metadata, tags, synthesized, request>>

\* ------------------------------------------------ GitHubOIDCStack.__init__

\* Stack.account / Stack.region: the value of env when given, otherwise the
\* deploy-time pseudo parameter (an unresolved, non-empty token)
StackAccount(kw) == IF kw.account.some THEN kw.account.val ELSE AwsAccountId
StackRegion(kw) == IF kw.region.some THEN kw.region.val ELSE AwsRegion

\* faulty variant: the fallback is taken only when the argument is None
ResolveOwnerUnlessNone(arg, env) ==
    IF arg.some THEN arg.val
    ELSE EnvironGet(env, "GITHUB_OWNER", Some(<<"infiquetra">>)).val

\* github_owner or os.environ.get("GITHUB_OWNER", "infiquetra")
ResolveOwner(arg, env) ==
    IF Truthy(arg) THEN arg.val
    ELSE EnvironGet(env, "GITHUB_OWNER", Some(<<"infiquetra">>)).val

\* repo_name or os.environ.get("GITHUB_REPO", "infiquetra-aws-infra")
ResolveRepo(arg, env) ==
    IF Truthy(arg) THEN arg.val
    ELSE EnvironGet(env, "GITHUB_REPO", Some(<<"infiquetra-aws-infra">>)).val

\* f"{self.github_owner}/{self.repo_name}"
RepoFullName(owner, repo) == owner \o <<"/">> \o repo

\* super().__init__ and the repository configuration (lines 36-43)
StackInit ==
    /\ pc = "stack_init"
    /\ self' = [github_owner |-> ResolveOwner(kwargs.github_owner, environ),
                repo_name |-> ResolveRepo(kwargs.repo_name, environ),
                repo_full_name |-> RepoFullName(ResolveOwner(kwargs.github_owner, environ),
                                                ResolveRepo(kwargs.repo_name, environ)),
                account |-> StackAccount(kwargs),
                region |-> StackRegion(kwargs)]
    /\ pc' = "validate"
    /\ UNCHANGED <<deployVars, orgVars, ssoVars, program, environ, context, kwargs, provider, roles, policies,
                   outputs, metadata, tags, error, synthesized, request>>

\* faulty variant: the forward-slash check of the repository name is missing
ValidationErrorNoRepoSlashCheck(s) ==
    IF s.github_owner = <<>> THEN <<"GitHub owner must be specified">>
    ELSE IF s.repo_name = <<>> THEN <<"Repository name must be specified">>
    ELSE IF "/" \in Range(s.github_owner) THEN <<"GitHub owner cannot contain forward slashes">>
    ELSE IF s.account = <<>> THEN <<"AWS account ID must be specified in the stack environment">>
    ELSE IF s.region = <<>> THEN <<"AWS region must be specified in the stack environment">>
    ELSE <<>>

\* the first failing check of _validate_configuration, <<>> when all pass
ValidationError(s) ==
    IF s.github_owner = <<>> THEN <<"GitHub owner must be specified">>
    ELSE IF s.repo_name = <<>> THEN <<"Repository name must be specified">>
    ELSE IF "/" \in Range(s.github_owner) THEN <<"GitHub owner cannot contain forward slashes">>
    ELSE IF "/" \in Range(s.repo_name) THEN <<"Repository name cannot contain forward slashes">>
    ELSE IF s.account = <<>> THEN <<"AWS account ID must be specified in the stack environment">>
    ELSE IF s.region = <<>> THEN <<"AWS region must be specified in the stack environment">>
    ELSE <<>>

\* _validate_configuration: raise on the first failing check, else record metadata
ValidateConfiguration ==
    /\ pc = "validate"
    /\ IF ValidationError(self) # <<>>
       THEN /\ Raise(ValidationError(self))
            /\ UNCHANGED metadata
       ELSE /\ metadata' = metadata \o << <<"repository", self.repo_full_name>>,
                                          <<"target_account", self.account>>,
                                          <<"target_region", self.region>> >>
            /\ pc' = "create_oidc_provider"
            /\ UNCHANGED error
    /\ UNCHANGED <<deployVars, orgVars, ssoVars, program, environ, context, kwargs, self, provider, roles, policies,
                   outputs, tags, synthesized, request>>

\* _create_oidc_provider
OidcProvider ==
    [ logical_id |-> "GitHubOIDCProvider",
      url |-> <<"https", ":", "/", "/", "token.actions.githubusercontent.com">>,
      client_ids |-> << <<"sts.amazonaws.com">> >>,
      thumbprints |-> << <<"1111111111111111111111111111111111111111">> >> ]

CreateOidcProvider ==
    /\ pc = "create_oidc_provider"
    /\ provider' = Append(provider, OidcProvider)
    /\ pc' = "create_role"
    /\ UNCHANGED <<deployVars, orgVars, ssoVars, program, environ, context, kwargs, self, roles, policies,
                   outputs, metadata, tags, error, synthesized, request>>

AudKey == "token.actions.githubusercontent.com:aud"
SubKey == "token.actions.githubusercontent.com:sub"

\* faulty variant: the audience condition is left out of the trust
TrustConditionsAnyAudience(repo_full_name) ==
    { << "StringLike", SubKey, << <<"repo", ":", "infiquetra", "/", "*">> >> >> }

\* faulty variant: the subject condition is built from an empty pattern list
TrustConditionsNoSubject(repo_full_name) ==
    { << "StringEquals", AudKey, << <<"sts.amazonaws.com">> >> >>,
      << "StringLike", SubKey, << >> >> }

\* faulty variant: the subject pattern admits the repositories of every owner
TrustConditionsAnyOwner(repo_full_name) ==
    { << "StringEquals", AudKey, << <<"sts.amazonaws.com">> >> >>,
      << "StringLike", SubKey, << <<"repo", ":", "*">> >> >> }

\* faulty variant: the subject pattern is the repository-scoped one of line 128
TrustConditionsRepositoryScoped(repo_full_name) ==
    { << "StringEquals", AudKey, << <<"sts.amazonaws.com">> >> >>,
      << "StringLike", SubKey, << <<"repo", ":">> \o repo_full_name \o <<":", "*">> >> >> }

\* the conditions dictionary given to iam.FederatedPrincipal (lines 123-131):
\* triples <<operator, key, values>>
TrustConditions(repo_full_name) ==
    { << "StringEquals", AudKey, << <<"sts.amazonaws.com">> >> >>,
      << "StringLike", SubKey, << <<"repo", ":", "infiquetra", "/", "*">> >> >> }

\* faulty variant: the principal also allows the plain assume-role action
TrustActionsWithAssumeRole ==
    << Act("sts", "AssumeRoleWithWebIdentity"), Act("sts", "AssumeRole") >>

\* the assume-role action given to iam.FederatedPrincipal (line 132)
TrustActions == << Act("sts", "AssumeRoleWithWebIdentity") >>

\* faulty variant: the duration is built with cdk.Duration.days
DurationHoursAsDays(n) == n * 86400

\* cdk.Duration.hours(n), in seconds as the role resource carries it
DurationHours(n) == n * 3600

\* iam.Role(...) of _create_github_actions_role: the role's trust document is
\* the single statement of its FederatedPrincipal
GithubActionsRole(oidc_provider, repo_full_name) ==
    [ logical_id |-> "GitHubActionsDeployRole",
      role_name |-> "infiquetra-aws-infra-gha-role",
      description |-> "Role for GitHub Actions to deploy CDK stacks from infiquetra-aws-infra",
      assume_role_policy |->
          << [ effect |-> "Allow",
               actions |-> TrustActions,
               federated |-> oidc_provider.logical_id,
               conditions |-> TrustConditions(repo_full_name) ] >>,
      max_session_duration |-> DurationHours(12),
      managed_policies |-> <<>> ]

CreateGithubActionsRole ==
    /\ pc = "create_role"
    /\ roles' = Append(roles, GithubActionsRole(provider[Len(provider)], self.repo_full_name))
    /\ pc' = "create_cdk_deployment_policy"
    /\ UNCHANGED <<deployVars, orgVars, ssoVars, program, environ, context, kwargs, self, provider, policies,
                   outputs, metadata, tags, error, synthesized, request>>

\* ------------------------------------------------------ policy statements

\* faulty variant: the stack ARNs are written for us-east-1 instead of the region of the deployment
CloudFormationStackStatementFixedRegion ==
    LET account_id == AwsAccountId
        region == <<"us-east-1">>
    IN
    [ effect |-> "Allow",
        actions |-> <<
          Act("cloudformation", "CreateStack"),
          Act("cloudformation", "UpdateStack"),
          Act("cloudformation", "DeleteStack"),
          Act("cloudformation", "DescribeStacks"),
          Act("cloudformation", "DescribeStackEvents"),
          Act("cloudformation", "DescribeStackResources"),
          Act("cloudformation", "GetTemplate"),
          Act("cloudformation", "ListStacks"),
          Act("cloudformation", "ValidateTemplate"),
          Act("cloudformation", "CreateChangeSet"),
          Act("cloudformation", "DescribeChangeSet"),
          Act("cloudformation", "ExecuteChangeSet"),
          Act("cloudformation", "DeleteChangeSet"),
          Act("cloudformation", "ListChangeSets"),
          Act("cloudformation", "GetStackPolicy"),
          Act("cloudformation", "SetStackPolicy") >>,
        resources |-> <<
          <<"arn", ":", "aws", ":", "cloudformation", ":">> \o region \o <<":">> \o account_id \o <<":", "stack", "/", "CDKToolkit", "/", "*">>,
          <<"arn", ":", "aws", ":", "cloudformation", ":">> \o region \o <<":">> \o account_id \o <<":", "stack", "/", "*", "-Organizations-", "*", "/", "*">>,
          <<"arn", ":", "aws", ":", "cloudformation", ":">> \o region \o <<":">> \o account_id \o <<":", "stack", "/", "*", "-SSO-", "*", "/", "*">>,
          <<"arn", ":", "aws", ":", "cloudformation", ":">> \o region \o <<":">> \o account_id \o <<":", "stack", "/", "*", "/", "*">> >>,
        conditions |-> {} ]

\* faulty variant: the statement lists the toolkit, Organizations and SSO stack patterns only
CloudFormationStackStatementNamedStacksOnly ==
    LET account_id == AwsAccountId
        region == AwsRegion
    IN
    [ effect |-> "Allow",
        actions |-> <<
          Act("cloudformation", "CreateStack"),
          Act("cloudformation", "UpdateStack"),
          Act("cloudformation", "DeleteStack"),
          Act("cloudformation", "DescribeStacks"),
          Act("cloudformation", "DescribeStackEvents"),
          Act("cloudformation", "DescribeStackResources"),
          Act("cloudformation", "GetTemplate"),
          Act("cloudformation", "ListStacks"),
          Act("cloudformation", "ValidateTemplate"),
          Act("cloudformation", "CreateChangeSet"),
          Act("cloudformation", "DescribeChangeSet"),
          Act("cloudformation", "ExecuteChangeSet"),
          Act("cloudformation", "DeleteChangeSet"),
          Act("cloudformation", "ListChangeSets"),
          Act("cloudformation", "GetStackPolicy"),
          Act("cloudformation", "SetStackPolicy") >>,
        resources |-> <<
          <<"arn", ":", "aws", ":", "cloudformation", ":">> \o region \o <<":">> \o account_id \o <<":", "stack", "/", "CDKToolkit", "/", "*">>,
          <<"arn", ":", "aws", ":", "cloudformation", ":">> \o region \o <<":">> \o account_id \o <<":", "stack", "/", "*", "-Organizations-", "*", "/", "*">>,
          <<"arn", ":", "aws", ":", "cloudformation", ":">> \o region \o <<":">> \o account_id \o <<":", "stack", "/", "*", "-SSO-", "*", "/", "*">> >>,
        conditions |-> {} ]

\* _create_cdk_deployment_policy, statement at lines 147-173
CloudFormationStackStatement ==
    LET account_id == AwsAccountId
        region == AwsRegion
    IN
    [ effect |-> "Allow",
        actions |-> <<
          Act("cloudformation", "CreateStack"),
          Act("cloudformation", "UpdateStack"),
          Act("cloudformation", "DeleteStack"),
          Act("cloudformation", "DescribeStacks"),
          Act("cloudformation", "DescribeStackEvents"),
          Act("cloudformation", "DescribeStackResources"),
          Act("cloudformation", "GetTemplate"),
          Act("cloudformation", "ListStacks"),
          Act("cloudformation", "ValidateTemplate"),
          Act("cloudformation", "CreateChangeSet"),
          Act("cloudformation", "DescribeChangeSet"),
          Act("cloudformation", "ExecuteChangeSet"),
          Act("cloudformation", "DeleteChangeSet"),
          Act("cloudformation", "ListChangeSets"),
          Act("cloudformation", "GetStackPolicy"),
          Act("cloudformation", "SetStackPolicy") >>,
        resources |-> <<
          <<"arn", ":", "aws", ":", "cloudformation", ":">> \o region \o <<":">> \o account_id \o <<":", "stack", "/", "CDKToolkit", "/", "*">>,
          <<"arn", ":", "aws", ":", "cloudformation", ":">> \o region \o <<":">> \o account_id \o <<":", "stack", "/", "*", "-Organizations-", "*", "/", "*">>,
          <<"arn", ":", "aws", ":", "cloudformation", ":">> \o region \o <<":">> \o account_id \o <<":", "stack", "/", "*", "-SSO-", "*", "/", "*">>,
          <<"arn", ":", "aws", ":", "cloudformation", ":">> \o region \o <<":">> \o account_id \o <<":", "stack", "/", "*", "/", "*">> >>,
        conditions |-> {} ]

\* faulty variant: DeleteStack is granted in the statement on all resources
CloudFormationGlobalStatementWithDelete ==
    LET account_id == AwsAccountId
        region == AwsRegion
    IN
    [ effect |-> "Allow",
        actions |-> <<
          Act("cloudformation", "ListStacks"),
          Act("cloudformation", "DescribeStacks"),
          Act("cloudformation", "DeleteStack") >>,
        resources |-> <<
          <<"*">> >>,
        conditions |-> {} ]

\* _create_cdk_deployment_policy, statement at lines 175-182
CloudFormationGlobalStatement ==
    LET account_id == AwsAccountId
        region == AwsRegion
    IN
    [ effect |-> "Allow",
        actions |-> <<
          Act("cloudformation", "ListStacks"),
          Act("cloudformation", "DescribeStacks") >>,
        resources |-> <<
          <<"*">> >>,
        conditions |-> {} ]

\* _create_cdk_deployment_policy, statement at lines 184-213
IamRoleStatement ==
    LET account_id == AwsAccountId
        region == AwsRegion
    IN
    [ effect |-> "Allow",
        actions |-> <<
          Act("iam", "CreateRole"),
          Act("iam", "DeleteRole"),
          Act("iam", "GetRole"),
          Act("iam", "PassRole"),
          Act("iam", "AttachRolePolicy"),
          Act("iam", "DetachRolePolicy"),
          Act("iam", "PutRolePolicy"),
          Act("iam", "DeleteRolePolicy"),
          Act("iam", "GetRolePolicy"),
          Act("iam", "ListRolePolicies"),
          Act("iam", "ListAttachedRolePolicies"),
          Act("iam", "TagRole"),
          Act("iam", "UntagRole"),
          Act("iam", "UpdateRole"),
          Act("iam", "UpdateAssumeRolePolicy") >>,
        resources |-> <<
          <<"arn", ":", "aws", ":", "iam", ":", ":">> \o account_id \o <<":", "role", "/", "cdk-", "*">>,
          <<"arn", ":", "aws", ":", "iam", ":", ":">> \o account_id \o <<":", "role", "/", "*", "-Organizations-", "*">>,
          <<"arn", ":", "aws", ":", "iam", ":", ":">> \o account_id \o <<":", "role", "/", "*", "-SSO-", "*">>,
          <<"arn", ":", "aws", ":", "iam", ":", ":">> \o account_id \o <<":", "role", "/", "AWSControlTower", "*">>,
          <<"arn", ":", "aws", ":", "iam", ":", ":">> \o account_id \o <<":", "role", "/", "OrganizationAccountAccessRole">>,
          <<"arn", ":", "aws", ":", "iam", ":", ":">> \o account_id \o <<":", "role", "/", "infiquetra-", "*">>,
          <<"arn", ":", "aws", ":", "iam", ":", ":">> \o account_id \o <<":", "role", "/", "Lambda", "*">>,
          <<"arn", ":", "aws", ":", "iam", ":", ":">> \o account_id \o <<":", "role", "/", "aws-service-role", "/", "*">> >>,
        conditions |-> {} ]

\* _create_cdk_deployment_policy, statement at lines 215-237
IamPolicyStatement ==
    LET account_id == AwsAccountId
        region == AwsRegion
    IN
    [ effect |-> "Allow",
        actions |-> <<
          Act("iam", "CreatePolicy"),
          Act("iam", "DeletePolicy"),
          Act("iam", "GetPolicy"),
          Act("iam", "GetPolicyVersion"),
          Act("iam", "ListPolicyVersions"),
          Act("iam", "CreatePolicyVersion"),
          Act("iam", "DeletePolicyVersion"),
          Act("iam", "SetDefaultPolicyVersion"),
          Act("iam", "TagPolicy"),
          Act("iam", "UntagPolicy") >>,
        resources |-> <<
          <<"arn", ":", "aws", ":", "iam", ":", ":">> \o account_id \o <<":", "policy", "/", "cdk-", "*">>,
          <<"arn", ":", "aws", ":", "iam", ":", ":">> \o account_id \o <<":", "policy", "/", "*", "-Organizations-", "*">>,
          <<"arn", ":", "aws", ":", "iam", ":", ":">> \o account_id \o <<":", "policy", "/", "*", "-SSO-", "*">>,
          <<"arn", ":", "aws", ":", "iam", ":", ":">> \o account_id \o <<":", "policy", "/", "infiquetra-", "*">>,
          <<"arn", ":", "aws", ":", "iam", ":", ":">> \o account_id \o <<":", "policy", "/", "Lambda", "*">>,
          <<"arn", ":", "aws", ":", "iam", ":", ":">> \o account_id \o <<":", "policy", "/", "AWSLambda", "*">> >>,
        conditions |-> {} ]

\* faulty variant: the IAM discovery statement grants the whole service
IamReadOnlyStatementFullService ==
    [ effect |-> "Allow",
        actions |-> <<
          Act("iam", "*") >>,
        resources |-> <<
          <<"*">> >>,
        conditions |-> {} ]

\* _create_cdk_deployment_policy, statement at lines 239-248
IamReadOnlyStatement ==
    LET account_id == AwsAccountId
        region == AwsRegion
    IN
    [ effect |-> "Allow",
        actions |-> <<
          Act("iam", "ListRoles"),
          Act("iam", "ListPolicies"),
          Act("iam", "GetUser"),
          Act("iam", "GetAccountSummary") >>,
        resources |-> <<
          <<"*">> >>,
        conditions |-> {} ]

\* _create_cdk_deployment_policy, statement at lines 250-289
S3Statement ==
    LET account_id == AwsAccountId
        region == AwsRegion
    IN
    [ effect |-> "Allow",
        actions |-> <<
          Act("s3", "GetObject"),
          Act("s3", "PutObject"),
          Act("s3", "DeleteObject"),
          Act("s3", "GetBucketLocation"),
          Act("s3", "GetBucketPolicy"),
          Act("s3", "PutBucketPolicy"),
          Act("s3", "DeleteBucketPolicy"),
          Act("s3", "ListBucket"),
          Act("s3", "CreateBucket"),
          Act("s3", "DeleteBucket"),
          Act("s3", "PutBucketVersioning"),
          Act("s3", "PutEncryptionConfiguration"),
          Act("s3", "PutBucketPublicAccessBlock"),
          Act("s3", "PutBucketNotification"),
          Act("s3", "PutBucketLogging"),
          Act("s3", "PutBucketCORS"),
          Act("s3", "PutBucketWebsite"),
          Act("s3", "PutBucketTagging"),
          Act("s3", "PutObjectAcl"),
          Act("s3", "GetBucketAcl"),
          Act("s3", "PutBucketAcl"),
          Act("s3", "GetObjectVersion"),
          Act("s3", "DeleteObjectVersion"),
          Act("s3", "PutLifecycleConfiguration"),
          Act("s3", "GetBucketVersioning"),
          Act("s3", "GetBucketNotification"),
          Act("s3", "GetBucketCORS"),
          Act("s3", "GetBucketWebsite"),
          Act("s3", "GetBucketTagging") >>,
        resources |-> <<
          <<"arn", ":", "aws", ":", "s3", ":", ":", ":", "cdk-", "*", "-assets-">> \o account_id \o <<"-">> \o region,
          <<"arn", ":", "aws", ":", "s3", ":", ":", ":", "cdk-", "*", "-assets-">> \o account_id \o <<"-">> \o region \o <<"/", "*">>,
          <<"arn", ":", "aws", ":", "s3", ":", ":", ":", "infiquetra-", "*">>,
          <<"arn", ":", "aws", ":", "s3", ":", ":", ":", "infiquetra-", "*", "/", "*">> >>,
        conditions |-> {} ]

\* faulty variant: the parameter ARNs are left out of the statement
SsmStatementNoResources ==
    LET account_id == AwsAccountId
        region == AwsRegion
    IN
    [ effect |-> "Allow",
        actions |-> <<
          Act("ssm", "GetParameter"),
          Act("ssm", "GetParameters"),
          Act("ssm", "PutParameter"),
          Act("ssm", "DeleteParameter") >>,
        resources |-> << >>,
        conditions |-> {} ]

\* _create_cdk_deployment_policy, statement at lines 291-303
SsmStatement ==
    LET account_id == AwsAccountId
        region == AwsRegion
    IN
    [ effect |-> "Allow",
        actions |-> <<
          Act("ssm", "GetParameter"),
          Act("ssm", "GetParameters"),
          Act("ssm", "PutParameter"),
          Act("ssm", "DeleteParameter") >>,
        resources |-> <<
          <<"arn", ":", "aws", ":", "ssm", ":">> \o region \o <<":">> \o account_id \o <<":", "parameter", "/", "cdk-bootstrap", "/", "*">>,
          <<"arn", ":", "aws", ":", "ssm", ":">> \o region \o <<":">> \o account_id \o <<":", "parameter", "/", "infiquetra", "/", "*">> >>,
        conditions |-> {} ]

\* _create_cdk_deployment_policy, statement at lines 305-320
OrganizationsReadStatement ==
    LET account_id == AwsAccountId
        region == AwsRegion
    IN
    [ effect |-> "Allow",
        actions |-> <<
          Act("organizations", "DescribeOrganization"),
          Act("organizations", "DescribeAccount"),
          Act("organizations", "ListAccounts"),
          Act("organizations", "ListRoots"),
          Act("organizations", "ListOrganizationalUnitsForParent"),
          Act("organizations", "ListChildren"),
          Act("organizations", "DescribeOrganizationalUnit"),
          Act("organizations", "ListPolicies"),
          Act("organizations", "DescribePolicy"),
          Act("organizations", "ListTargetsForPolicy") >>,
        resources |-> <<
          <<"*">> >>,
        conditions |-> {} ]

\* faulty variant: the Organizations write statement loses its region condition
OrganizationsWriteStatementAnyRegion ==
    [ effect |-> "Allow",
        actions |-> <<
          Act("organizations", "CreateAccount"),
          Act("organizations", "CreateOrganizationalUnit"),
          Act("organizations", "UpdateOrganizationalUnit"),
          Act("organizations", "MoveAccount"),
          Act("organizations", "TagResource"),
          Act("organizations", "UntagResource"),
          Act("organizations", "AttachPolicy"),
          Act("organizations", "DetachPolicy") >>,
        resources |-> <<
          <<"*">> >>,
        conditions |-> {} ]

\* _create_cdk_deployment_policy, statement at lines 322-340
OrganizationsWriteStatement ==
    LET account_id == AwsAccountId
        region == AwsRegion
    IN
    [ effect |-> "Allow",
        actions |-> <<
          Act("organizations", "CreateAccount"),
          Act("organizations", "CreateOrganizationalUnit"),
          Act("organizations", "UpdateOrganizationalUnit"),
          Act("organizations", "MoveAccount"),
          Act("organizations", "TagResource"),
          Act("organizations", "UntagResource"),
          Act("organizations", "AttachPolicy"),
          Act("organizations", "DetachPolicy") >>,
        resources |-> <<
          <<"*">> >>,
        conditions |-> {<< "StringEquals", "aws:RequestedRegion", << <<"us-east-1">> >> >>} ]

\* _create_cdk_deployment_policy, statement at lines 342-356
SsoReadStatement ==
    LET account_id == AwsAccountId
        region == AwsRegion
    IN
    [ effect |-> "Allow",
        actions |-> <<
          Act("sso", "ListInstances"),
          Act("sso", "DescribeInstance"),
          Act("sso", "ListPermissionSets"),
          Act("sso", "DescribePermissionSet"),
          Act("sso", "GetInlinePolicyForPermissionSet"),
          Act("sso", "ListManagedPoliciesInPermissionSet"),
          Act("sso", "ListAccountsForProvisionedPermissionSet"),
          Act("sso", "ListPermissionSetProvisioningStatus"),
          Act("sso", "DescribePermissionSetProvisioningStatus") >>,
        resources |-> <<
          <<"*">> >>,
        conditions |-> {} ]

\* _create_cdk_deployment_policy, statement at lines 358-375
SsoWriteStatement ==
    LET account_id == AwsAccountId
        region == AwsRegion
    IN
    [ effect |-> "Allow",
        actions |-> <<
          Act("sso", "CreatePermissionSet"),
          Act("sso", "UpdatePermissionSet"),
          Act("sso", "DeletePermissionSet"),
          Act("sso", "PutInlinePolicyInPermissionSet"),
          Act("sso", "DeleteInlinePolicyFromPermissionSet"),
          Act("sso", "AttachManagedPolicyToPermissionSet"),
          Act("sso", "DetachManagedPolicyFromPermissionSet"),
          Act("sso", "ProvisionPermissionSet"),
          Act("sso", "CreateAccountAssignment"),
          Act("sso", "DeleteAccountAssignment"),
          Act("sso", "TagResource"),
          Act("sso", "UntagResource") >>,
        resources |-> <<
          <<"*">> >>,
        conditions |-> {} ]

\* _create_cdk_deployment_policy, statement at lines 377-389
IdentityStoreReadStatement ==
    LET account_id == AwsAccountId
        region == AwsRegion
    IN
    [ effect |-> "Allow",
        actions |-> <<
          Act("identitystore", "ListUsers"),
          Act("identitystore", "DescribeUser"),
          Act("identitystore", "ListGroups"),
          Act("identitystore", "DescribeGroup"),
          Act("identitystore", "ListGroupMemberships"),
          Act("identitystore", "GetGroupMembershipId"),
          Act("identitystore", "IsMemberInGroups") >>,
        resources |-> <<
          <<"*">> >>,
        conditions |-> {} ]

\* _create_cdk_deployment_policy, statement at lines 391-399
CloudTrailReadStatement ==
    LET account_id == AwsAccountId
        region == AwsRegion
    IN
    [ effect |-> "Allow",
        actions |-> <<
          Act("cloudtrail", "DescribeTrails"),
          Act("cloudtrail", "GetTrailStatus"),
          Act("cloudtrail", "LookupEvents") >>,
        resources |-> <<
          <<"*">> >>,
        conditions |-> {} ]

\* _create_cdk_deployment_policy, statement at lines 401-418
AdditionalServicesStatement ==
    LET account_id == AwsAccountId
        region == AwsRegion
    IN
    [ effect |-> "Allow",
        actions |-> <<
          Act("logs", "CreateLogGroup"),
          Act("logs", "CreateLogStream"),
          Act("logs", "PutLogEvents"),
          Act("logs", "DescribeLogGroups"),
          Act("logs", "DescribeLogStreams"),
          Act("kms", "Decrypt"),
          Act("kms", "DescribeKey"),
          Act("kms", "GenerateDataKey"),
          Act("ec2", "DescribeAvailabilityZones"),
          Act("ec2", "DescribeVpcs"),
          Act("ec2", "DescribeSubnets"),
          Act("sts", "GetCallerIdentity") >>,
        resources |-> <<
          <<"*">> >>,
        conditions |-> {} ]

\* _create_cdk_deployment_policy: policy_statements (lines 145-419)
CdkDeploymentPolicyStatements ==
    << CloudFormationStackStatement,
       CloudFormationGlobalStatement,
       IamRoleStatement,
       IamPolicyStatement,
       IamReadOnlyStatement,
       S3Statement,
       SsmStatement,
       OrganizationsReadStatement,
       OrganizationsWriteStatement,
       SsoReadStatement,
       SsoWriteStatement,
       IdentityStoreReadStatement,
       CloudTrailReadStatement,
       AdditionalServicesStatement >>

\* faulty variant: the serverless policy also grants all of S3
ServerlessPolicyStatementsWithS3 ==
    <<
      [ effect |-> "Allow",
        actions |-> <<
          Act("lambda", "*"),
          Act("s3", "*") >>,
        resources |-> <<
          <<"*">> >>,
        conditions |-> {} ],
      [ effect |-> "Allow",
        actions |-> <<
          Act("apigateway", "*"),
          Act("apigatewayv2", "*") >>,
        resources |-> <<
          <<"*">> >>,
        conditions |-> {} ],
      [ effect |-> "Allow",
        actions |-> <<
          Act("dynamodb", "*") >>,
        resources |-> <<
          <<"*">> >>,
        conditions |-> {} ]
    >>

\* _create_serverless_policy: policy_statements (lines 431-450)
ServerlessPolicyStatements ==
    <<
      [ effect |-> "Allow",
        actions |-> <<
          Act("lambda", "*") >>,
        resources |-> <<
          <<"*">> >>,
        conditions |-> {} ],
      [ effect |-> "Allow",
        actions |-> <<
          Act("apigateway", "*"),
          Act("apigatewayv2", "*") >>,
        resources |-> <<
          <<"*">> >>,
        conditions |-> {} ],
      [ effect |-> "Allow",
        actions |-> <<
          Act("dynamodb", "*") >>,
        resources |-> <<
          <<"*">> >>,
        conditions |-> {} ]
    >>

\* faulty variant: the SQS grant names one action instead of the whole service
EventDrivenPolicyStatementsNamedAction ==
    <<
      [ effect |-> "Allow",
        actions |-> <<
          Act("events", "*") >>,
        resources |-> <<
          <<"*">> >>,
        conditions |-> {} ],
      [ effect |-> "Allow",
        actions |-> <<
          Act("states", "*") >>,
        resources |-> <<
          <<"*">> >>,
        conditions |-> {} ],
      [ effect |-> "Allow",
        actions |-> <<
          Act("sns", "*"),
          Act("sqs", "SendMessage") >>,
        resources |-> <<
          <<"*">> >>,
        conditions |-> {} ]
    >>

\* _create_event_driven_policy: policy_statements (lines 462-481)
EventDrivenPolicyStatements ==
    <<
      [ effect |-> "Allow",
        actions |-> <<
          Act("events", "*") >>,
        resources |-> <<
          <<"*">> >>,
        conditions |-> {} ],
      [ effect |-> "Allow",
        actions |-> <<
          Act("states", "*") >>,
        resources |-> <<
          <<"*">> >>,
        conditions |-> {} ],
      [ effect |-> "Allow",
        actions |-> <<
          Act("sns", "*"),
          Act("sqs", "*") >>,
        resources |-> <<
          <<"*">> >>,
        conditions |-> {} ]
    >>

\* _create_edge_services_policy: policy_statements (lines 493-512)
EdgeServicesPolicyStatements ==
    <<
      [ effect |-> "Allow",
        actions |-> <<
          Act("cloudfront", "*") >>,
        resources |-> <<
          <<"*">> >>,
        conditions |-> {} ],
      [ effect |-> "Allow",
        actions |-> <<
          Act("wafv2", "*") >>,
        resources |-> <<
          <<"*">> >>,
        conditions |-> {} ],
      [ effect |-> "Allow",
        actions |-> <<
          Act("route53", "*"),
          Act("route53resolver", "*") >>,
        resources |-> <<
          <<"*">> >>,
        conditions |-> {} ]
    >>

\* _create_data_analytics_policy: policy_statements (lines 524-543)
DataAnalyticsPolicyStatements ==
    <<
      [ effect |-> "Allow",
        actions |-> <<
          Act("athena", "*") >>,
        resources |-> <<
          <<"*">> >>,
        conditions |-> {} ],
      [ effect |-> "Allow",
        actions |-> <<
          Act("glue", "*") >>,
        resources |-> <<
          <<"*">> >>,
        conditions |-> {} ],
      [ effect |-> "Allow",
        actions |-> <<
          Act("kinesis", "*"),
          Act("firehose", "*"),
          Act("kinesisanalytics", "*") >>,
        resources |-> <<
          <<"*">> >>,
        conditions |-> {} ]
    >>

\* _create_security_policy: policy_statements (lines 555-580)
SecurityPolicyStatements ==
    <<
      [ effect |-> "Allow",
        actions |-> <<
          Act("cognito-idp", "*"),
          Act("cognito-identity", "*") >>,
        resources |-> <<
          <<"*">> >>,
        conditions |-> {} ],
      [ effect |-> "Allow",
        actions |-> <<
          Act("secretsmanager", "*") >>,
        resources |-> <<
          <<"*">> >>,
        conditions |-> {} ],
      [ effect |-> "Allow",
        actions |-> <<
          Act("kms", "*") >>,
        resources |-> <<
          <<"*">> >>,
        conditions |-> {} ],
      [ effect |-> "Allow",
        actions |-> <<
          Act("xray", "*") >>,
        resources |-> <<
          <<"*">> >>,
        conditions |-> {} ]
    >>

\* _create_infrastructure_policy: policy_statements (lines 592-622)
InfrastructurePolicyStatements ==
    <<
      [ effect |-> "Allow",
        actions |-> <<
          Act("ec2", "*") >>,
        resources |-> <<
          <<"*">> >>,
        conditions |-> {} ],
      [ effect |-> "Allow",
        actions |-> <<
          Act("ecr", "*") >>,
        resources |-> <<
          <<"*">> >>,
        conditions |-> {} ],
      [ effect |-> "Allow",
        actions |-> <<
          Act("appsync", "*") >>,
        resources |-> <<
          <<"*">> >>,
        conditions |-> {} ],
      [ effect |-> "Allow",
        actions |-> <<
          Act("logs", "*"),
          Act("cloudwatch", "*"),
          Act("synthetics", "*"),
          Act("applicationinsights", "*") >>,
        resources |-> <<
          <<"*">> >>,
        conditions |-> {} ]
    >>

\* iam.ManagedPolicy(self, id, managed_policy_name=..., description=...,
\*                   document=iam.PolicyDocument(statements=...))
\* (a customer-managed policy: the resource type AWS::IAM::ManagedPolicy)
ManagedPolicy(logical_id, managed_policy_name, description, statements) ==
    [ type |-> "AWS::IAM::ManagedPolicy",
      logical_id |-> logical_id,
      managed_policy_name |-> managed_policy_name,
      description |-> description,
      statements |-> statements ]

CdkDeploymentPolicy ==
    ManagedPolicy("CDKDeploymentPolicy", "infiquetra-aws-infra-gha-cdk-policy",
                  "CDK, Organizations, and SSO deployment permissions",
                  CdkDeploymentPolicyStatements)
ServerlessPolicy ==
    ManagedPolicy("ServerlessPolicy", "infiquetra-aws-infra-gha-serverless-policy",
                  "Core serverless services: Lambda, API Gateway, DynamoDB",
                  ServerlessPolicyStatements)
EventDrivenPolicy ==
    ManagedPolicy("EventDrivenPolicy", "infiquetra-aws-infra-gha-event-driven-policy",
                  "Event-driven services: EventBridge, Step Functions, SNS, SQS",
                  EventDrivenPolicyStatements)
EdgeServicesPolicy ==
    ManagedPolicy("EdgeServicesPolicy", "infiquetra-aws-infra-gha-edge-services-policy",
                  "Edge services: CloudFront, WAF, Route53",
                  EdgeServicesPolicyStatements)
DataAnalyticsPolicy ==
    ManagedPolicy("DataAnalyticsPolicy", "infiquetra-aws-infra-gha-data-analytics-policy",
                  "Data analytics services: Athena, Glue, Kinesis",
                  DataAnalyticsPolicyStatements)
SecurityPolicy ==
    ManagedPolicy("SecurityPolicy", "infiquetra-aws-infra-gha-security-policy",
                  "Security services: Cognito, Secrets Manager, KMS, X-Ray",
                  SecurityPolicyStatements)
InfrastructurePolicy ==
    ManagedPolicy("InfrastructurePolicy", "infiquetra-aws-infra-gha-infrastructure-policy",
                  "Infrastructure services: EC2/VPC, ECR, AppSync, CloudWatch",
                  InfrastructurePolicyStatements)

\* one step of lines 57-63: declare a managed policy and go on to the next call
CreatePolicy(at, policy, next) ==
    /\ pc = at
    /\ policies' = Append(policies, policy)
    /\ pc' = next
    /\ UNCHANGED <<deployVars, orgVars, ssoVars, program, environ, context, kwargs, self, provider, roles,
                   outputs, metadata, tags, error, synthesized, request>>

CreateCdkDeploymentPolicy ==
    CreatePolicy("create_cdk_deployment_policy", CdkDeploymentPolicy, "create_serverless_policy")
CreateServerlessPolicy ==
    CreatePolicy("create_serverless_policy", ServerlessPolicy, "create_event_driven_policy")
CreateEventDrivenPolicy ==
    CreatePolicy("create_event_driven_policy", EventDrivenPolicy, "create_edge_services_policy")
CreateEdgeServicesPolicy ==
    CreatePolicy("create_edge_services_policy", EdgeServicesPolicy, "create_data_analytics_policy")
CreateDataAnalyticsPolicy ==
    CreatePolicy("create_data_analytics_policy", DataAnalyticsPolicy, "create_security_policy")
CreateSecurityPolicy ==
    CreatePolicy("create_security_policy", SecurityPolicy, "create_infrastructure_policy")
CreateInfrastructurePolicy ==
    CreatePolicy("create_infrastructure_policy", InfrastructurePolicy, "add_managed_policy")

\* faulty variant: one add_managed_policy line is a copy of the line before it
AttachOrderCopied ==
    << "CDKDeploymentPolicy", "ServerlessPolicy", "ServerlessPolicy", "EdgeServicesPolicy",
       "DataAnalyticsPolicy", "SecurityPolicy", "InfrastructurePolicy" >>

\* the local variables of __init__ given to add_managed_policy, in call order (lines 66-72)
AttachOrder ==
    << "CDKDeploymentPolicy", "ServerlessPolicy", "EventDrivenPolicy", "EdgeServicesPolicy",
       "DataAnalyticsPolicy", "SecurityPolicy", "InfrastructurePolicy" >>

\* github_actions_role.add_managed_policy(policy): the next call of lines 66-72
AddManagedPolicy ==
    /\ pc = "add_managed_policy"
    /\ LET role == roles[Len(roles)]
           n == Len(role.managed_policies) + 1
       IN /\ roles' = [roles EXCEPT ![Len(roles)].managed_policies =
                           Append(role.managed_policies, AttachOrder[n])]
          /\ pc' = IF n = Len(AttachOrder) THEN "output_role_arn" ELSE "add_managed_policy"
    /\ UNCHANGED <<deployVars, orgVars, ssoVars, program, environ, context, kwargs, self, provider, policies,
                   outputs, metadata, tags, error, synthesized, request>>

\* CfnOutput(self, id, value=..., export_name=id)
Output(id, attribute, of) == [id |-> id, attribute |-> attribute, of |-> of, export_name |-> id]

OutputRoleArn ==
    /\ pc = "output_role_arn"
    /\ outputs' = Append(outputs, Output("GitHubActionsRoleArn", "role_arn",
                                         roles[Len(roles)].logical_id))
    /\ pc' = "output_provider_arn"
    /\ UNCHANGED <<deployVars, orgVars, ssoVars, program, environ, context, kwargs, self, provider, roles, policies,
                   metadata, tags, error, synthesized, request>>

OutputProviderArn ==
    /\ pc = "output_provider_arn"
    /\ outputs' = Append(outputs, Output("GitHubOIDCProviderArn", "open_id_connect_provider_arn",
                                         provider[Len(provider)].logical_id))
    /\ pc' = "apply_resource_tags"
    /\ UNCHANGED <<deployVars, orgVars, ssoVars, program, environ, context, kwargs, self, provider, roles, policies,
                   metadata, tags, error, synthesized, request>>

\* _apply_resource_tags: the tags dictionary, in insertion order
ResourceTags(s) ==
    << <<"Project", <<"Infiquetra Organizations">> >>,
       <<"Environment", <<"Bootstrap">> >>,
       <<"ManagedBy", <<"CDK">> >>,
       <<"Component", <<"GitHub OIDC">> >>,
       <<"Repository", s.repo_full_name>>,
       <<"Owner", s.github_owner>>,
       <<"Purpose", <<"CI", "/", "CD Authentication">> >>,
       <<"SecurityLevel", <<"High">> >>,
       <<"CostCenter", <<"Infrastructure">> >>,
       <<"CreatedBy", <<"GitHubOIDCStack">> >> >>

ApplyResourceTags ==
    /\ pc = "apply_resource_tags"
    /\ tags' = tags \o ResourceTags(self)
    /\ pc' = "constructed"
    /\ UNCHANGED <<deployVars, orgVars, ssoVars, program, environ, context, kwargs, self, provider, roles, policies,
                   outputs, metadata, error, synthesized, request>>

\* ------------------------------------------- organization and SSO declarations

\* faulty variant: the Purpose tag of Core is written without its space
CoreOUPurposeRewritten ==
    [ attr |-> "core_ou",
      logical_id |-> "CoreOU",
      name |-> "Core",
      parent |-> "root_id",
      tags |-> << <<"Purpose", "SharedServices">>,
                <<"BusinessUnit", "Core">> >> ]

\* self.core_ou = organizations.CfnOrganizationalUnit(...) (lines 41-50)
CoreOU ==
    [ attr |-> "core_ou",
      logical_id |-> "CoreOU",
      name |-> "Core",
      parent |-> "root_id",
      tags |-> << <<"Purpose", "Shared Services">>,
                <<"BusinessUnit", "Core">> >> ]

\* self.media_ou = organizations.CfnOrganizationalUnit(...) (lines 53-63)
MediaOU ==
    [ attr |-> "media_ou",
      logical_id |-> "MediaOU",
      name |-> "Media",
      parent |-> "root_id",
      tags |-> << <<"Purpose", "Online content branding media">>,
                <<"BusinessUnit", "Media">>,
                <<"LegalEntity", "Infiquetra Media LLC">> >> ]

\* self.apps_ou = organizations.CfnOrganizationalUnit(...) (lines 66-76)
AppsOU ==
    [ attr |-> "apps_ou",
      logical_id |-> "AppsOU",
      name |-> "Apps",
      parent |-> "root_id",
      tags |-> << <<"Purpose", "Software product development">>,
                <<"BusinessUnit", "Apps">>,
                <<"LegalEntity", "Infiquetra Apps LLC">> >> ]

\* self.consulting_ou = organizations.CfnOrganizationalUnit(...) (lines 79-89)
ConsultingOU ==
    [ attr |-> "consulting_ou",
      logical_id |-> "ConsultingOU",
      name |-> "Consulting",
      parent |-> "root_id",
      tags |-> << <<"Purpose", "Contracting and consulting services">>,
                <<"BusinessUnit", "Consulting">>,
                <<"LegalEntity", "Infiquetra Consulting LLC">> >> ]

\* self.apps_campps_ou = organizations.CfnOrganizationalUnit(...) (lines 92-102)
AppsCamppsOU ==
    [ attr |-> "apps_campps_ou",
      logical_id |-> "AppsCamppsOU",
      name |-> "CAMPPS",
      parent |-> "apps_ou",
      tags |-> << <<"Purpose", "CAMPPS application workloads">>,
                <<"Project", "CAMPPS">>,
                <<"BusinessUnit", "Apps">> >> ]

\* self.campps_production_ou = organizations.CfnOrganizationalUnit(...) (lines 105-114)
CamppsProductionOU ==
    [ attr |-> "campps_production_ou",
      logical_id |-> "CamppsProductionOU",
      name |-> "Production",
      parent |-> "apps_campps_ou",
      tags |-> << <<"Environment", "Production">>,
                <<"Project", "CAMPPS">> >> ]

\* self.campps_nonprod_ou = organizations.CfnOrganizationalUnit(...) (lines 116-125)
CamppsNonProdOU ==
    [ attr |-> "campps_nonprod_ou",
      logical_id |-> "CamppsNonProdOU",
      name |-> "NonProd",
      parent |-> "apps_campps_ou",
      tags |-> << <<"AccountType", "NonProduction">>,
                <<"Project", "CAMPPS">> >> ]

\* faulty variant: the CAMPPS unit is defined before the Apps unit it is nested in
OrganizationalUnitsNestedFirst ==
    << CoreOU, MediaOU, AppsCamppsOU, AppsOU, ConsultingOU, CamppsProductionOU, CamppsNonProdOU >>

\* create_organizational_structure: the units in the order they are declared
OrganizationalUnits ==
    << CoreOU, MediaOU, AppsOU, ConsultingOU, AppsCamppsOU, CamppsProductionOU, CamppsNonProdOU >>

\* base_security_policy["Statement"] (lines 131-170)
BaseSecurityPolicyStatements ==
    <<
    [ sid |-> "DenyRootUserActions",
      effect |-> "Deny",
      actions |-> <<
          <<"*">> >>,
      resources |-> <<
          <<"*">> >>,
      conditions |-> {<< "StringEquals", "aws:PrincipalType", << <<"Root">> >> >>} ],
    [ sid |-> "DenyDeleteLoggingResources",
      effect |-> "Deny",
      actions |-> <<
          Act("logs", "DeleteLogGroup"),
          Act("logs", "DeleteLogStream"),
          Act("cloudtrail", "DeleteTrail"),
          Act("cloudtrail", "StopLogging") >>,
      resources |-> <<
          <<"*">> >>,
      conditions |-> {} ],
    [ sid |-> "RequireMFAForSensitiveActions",
      effect |-> "Deny",
      actions |-> <<
          Act("iam", "DeleteUser"),
          Act("iam", "DeleteRole"),
          Act("iam", "DeletePolicy"),
          Act("organizations", "*") >>,
      resources |-> <<
          <<"*">> >>,
      conditions |-> {<< "BoolIfExists", "aws:MultiFactorAuthPresent", << <<"false">> >> >>} ]
    >>

\* faulty variant: the Apps unit is missing from the targets of the base security policy
BaseSecuritySCPWithoutApps ==
    [ attr |-> "base_security_scp",
      logical_id |-> "BaseSecuritySCP",
      name |-> "BaseSecurityPolicy",
      type |-> "SERVICE_CONTROL_POLICY",
      content |-> BaseSecurityPolicyStatements,
      targets |-> << "core_ou", "media_ou", "consulting_ou" >>,
      tags |-> << <<"PolicyType", "Security">>,
                <<"Scope", "AllBusinessUnits">> >> ]

\* self.base_security_scp = organizations.CfnPolicy(...) (lines 173-190)
BaseSecuritySCP ==
    [ attr |-> "base_security_scp",
      logical_id |-> "BaseSecuritySCP",
      name |-> "BaseSecurityPolicy",
      type |-> "SERVICE_CONTROL_POLICY",
      content |-> BaseSecurityPolicyStatements,
      targets |-> << "core_ou", "media_ou", "apps_ou", "consulting_ou" >>,
      tags |-> << <<"PolicyType", "Security">>,
                <<"Scope", "AllBusinessUnits">> >> ]

\* dev_cost_control_policy["Statement"] (lines 193-218)
DevCostControlPolicyStatements ==
    <<
    [ sid |-> "DenyExpensiveInstanceTypes",
      effect |-> "Deny",
      actions |-> <<
          Act("ec2", "RunInstances") >>,
      resources |-> <<
          <<"arn", ":", "aws", ":", "ec2", ":", "*", ":", "*", ":", "instance", "/", "*">> >>,
      conditions |-> {<< "StringNotEquals", "ec2:InstanceType", << <<"t3.nano">>, <<"t3.micro">>, <<"t3.small">>, <<"t3.medium">>, <<"t4g.nano">>, <<"t4g.micro">>, <<"t4g.small">>, <<"t4g.medium">> >> >>} ]
    >>

\* self.nonprod_cost_control_scp = organizations.CfnPolicy(...) (lines 221-233)
NonProdCostControlSCP ==
    [ attr |-> "nonprod_cost_control_scp",
      logical_id |-> "NonProdCostControlSCP",
      name |-> "NonProductionCostControl",
      type |-> "SERVICE_CONTROL_POLICY",
      content |-> DevCostControlPolicyStatements,
      targets |-> << "campps_nonprod_ou" >>,
      tags |-> << <<"PolicyType", "CostControl">>,
                <<"AccountType", "NonProduction">> >> ]

\* create_service_control_policies: the policies in the order they are declared
ServiceControlPolicies ==
    << BaseSecuritySCP, NonProdCostControlSCP >>

\* faulty variant: the last output is a copy of the one before it with only its id changed
OrganizationOutputsCopied ==
    << [id |-> "CoreOUId", attribute |-> "ref", of |-> "core_ou"],
       [id |-> "MediaOUId", attribute |-> "ref", of |-> "media_ou"],
       [id |-> "AppsOUId", attribute |-> "ref", of |-> "apps_ou"],
       [id |-> "ConsultingOUId", attribute |-> "ref", of |-> "consulting_ou"],
       [id |-> "CamppsOUId", attribute |-> "ref", of |-> "apps_campps_ou"],
       [id |-> "CamppsProductionOUId", attribute |-> "ref", of |-> "campps_production_ou"],
       [id |-> "CamppsNonProdOUId", attribute |-> "ref", of |-> "campps_production_ou"] >>

\* create_outputs of OrganizationStack: CfnOutput(self, id, value=self.<of>.<attribute>)
OrganizationOutputs ==
    << [id |-> "CoreOUId", attribute |-> "ref", of |-> "core_ou"],
       [id |-> "MediaOUId", attribute |-> "ref", of |-> "media_ou"],
       [id |-> "AppsOUId", attribute |-> "ref", of |-> "apps_ou"],
       [id |-> "ConsultingOUId", attribute |-> "ref", of |-> "consulting_ou"],
       [id |-> "CamppsOUId", attribute |-> "ref", of |-> "apps_campps_ou"],
       [id |-> "CamppsProductionOUId", attribute |-> "ref", of |-> "campps_production_ou"],
       [id |-> "CamppsNonProdOUId", attribute |-> "ref", of |-> "campps_nonprod_ou"] >>

\* create_campps_developer_policy: campps_policy["Statement"] (lines 242-276)
CamppsPolicyStatements ==
    <<
    [ sid |-> "CamppsResourceAccess",
      effect |-> "Allow",
      actions |-> <<
          Act("s3", "*"),
          Act("dynamodb", "*"),
          Act("lambda", "*"),
          Act("apigateway", "*"),
          Act("cloudformation", "*"),
          Act("cloudwatch", "*"),
          Act("logs", "*") >>,
      resources |-> <<
          <<"*">> >>,
      conditions |-> {<< "StringLike", "aws:RequestedRegion", << <<"us-east-1">>, <<"us-west-2">> >> >>} ],
    [ sid |-> "CamppsTaggedResourceAccess",
      effect |-> "Allow",
      actions |-> <<
          <<"*">> >>,
      resources |-> <<
          <<"*">> >>,
      conditions |-> {<< "StringEquals", "aws:ResourceTag/Project", << <<"CAMPPS">> >> >>} ]
    >>

\* self.core_admin_permission_set = sso.CfnPermissionSet(...) (lines 51-65)
CoreAdminPermissionSet ==
    [ attr |-> "core_admin_permission_set",
      logical_id |-> "CoreAdminPermissionSet",
      name |-> "CoreAdministrator",
      session_duration |-> << "P", "T", "4", "H" >>,
      managed_policy_arns |-> <<
            <<"arn", ":", "aws", ":", "iam", ":", ":", "aws", ":", "policy", "/", "AdministratorAccess">> >>,
      inline_policy |-> <<>>,
      tags |-> << <<"Role", "CoreAdministrator">>,
                <<"BusinessUnit", "Core">>,
                <<"AccessLevel", "Full">> >> ]

\* self.security_auditor_permission_set = sso.CfnPermissionSet(...) (lines 68-83)
SecurityAuditorPermissionSet ==
    [ attr |-> "security_auditor_permission_set",
      logical_id |-> "SecurityAuditorPermissionSet",
      name |-> "SecurityAuditor",
      session_duration |-> << "P", "T", "8", "H" >>,
      managed_policy_arns |-> <<
            <<"arn", ":", "aws", ":", "iam", ":", ":", "aws", ":", "policy", "/", "SecurityAudit">>,
            <<"arn", ":", "aws", ":", "iam", ":", ":", "aws", ":", "policy", "/", "ReadOnlyAccess">> >>,
      inline_policy |-> <<>>,
      tags |-> << <<"Role", "SecurityAuditor">>,
                <<"BusinessUnit", "Core">>,
                <<"AccessLevel", "ReadOnly">> >> ]

\* self.billing_manager_permission_set = sso.CfnPermissionSet(...) (lines 86-100)
BillingManagerPermissionSet ==
    [ attr |-> "billing_manager_permission_set",
      logical_id |-> "BillingManagerPermissionSet",
      name |-> "BillingManager",
      session_duration |-> << "P", "T", "1", "2", "H" >>,
      managed_policy_arns |-> <<
            <<"arn", ":", "aws", ":", "iam", ":", ":", "aws", ":", "policy", "/", "job-function", "/", "Billing">> >>,
      inline_policy |-> <<>>,
      tags |-> << <<"Role", "BillingManager">>,
                <<"BusinessUnit", "Core">>,
                <<"AccessLevel", "Billing">> >> ]

\* self.media_developer_permission_set = sso.CfnPermissionSet(...) (lines 103-117)
MediaDeveloperPermissionSet ==
    [ attr |-> "media_developer_permission_set",
      logical_id |-> "MediaDeveloperPermissionSet",
      name |-> "MediaDeveloper",
      session_duration |-> << "P", "T", "8", "H" >>,
      managed_policy_arns |-> <<
            <<"arn", ":", "aws", ":", "iam", ":", ":", "aws", ":", "policy", "/", "PowerUserAccess">> >>,
      inline_policy |-> <<>>,
      tags |-> << <<"Role", "Developer">>,
                <<"BusinessUnit", "Media">>,
                <<"AccessLevel", "PowerUser">> >> ]

\* self.media_admin_permission_set = sso.CfnPermissionSet(...) (lines 120-134)
MediaAdminPermissionSet ==
    [ attr |-> "media_admin_permission_set",
      logical_id |-> "MediaAdminPermissionSet",
      name |-> "MediaAdministrator",
      session_duration |-> << "P", "T", "4", "H" >>,
      managed_policy_arns |-> <<
            <<"arn", ":", "aws", ":", "iam", ":", ":", "aws", ":", "policy", "/", "AdministratorAccess">> >>,
      inline_policy |-> <<>>,
      tags |-> << <<"Role", "Administrator">>,
                <<"BusinessUnit", "Media">>,
                <<"AccessLevel", "Full">> >> ]

\* self.apps_developer_permission_set = sso.CfnPermissionSet(...) (lines 137-151)
AppsDeveloperPermissionSet ==
    [ attr |-> "apps_developer_permission_set",
      logical_id |-> "AppsDeveloperPermissionSet",
      name |-> "AppsDeveloper",
      session_duration |-> << "P", "T", "8", "H" >>,
      managed_policy_arns |-> <<
            <<"arn", ":", "aws", ":", "iam", ":", ":", "aws", ":", "policy", "/", "PowerUserAccess">> >>,
      inline_policy |-> <<>>,
      tags |-> << <<"Role", "Developer">>,
                <<"BusinessUnit", "Apps">>,
                <<"AccessLevel", "PowerUser">> >> ]

\* self.apps_admin_permission_set = sso.CfnPermissionSet(...) (lines 154-168)
AppsAdminPermissionSet ==
    [ attr |-> "apps_admin_permission_set",
      logical_id |-> "AppsAdminPermissionSet",
      name |-> "AppsAdministrator",
      session_duration |-> << "P", "T", "4", "H" >>,
      managed_policy_arns |-> <<
            <<"arn", ":", "aws", ":", "iam", ":", ":", "aws", ":", "policy", "/", "AdministratorAccess">> >>,
      inline_policy |-> <<>>,
      tags |-> << <<"Role", "Administrator">>,
                <<"BusinessUnit", "Apps">>,
                <<"AccessLevel", "Full">> >> ]

\* self.campps_developer_permission_set = sso.CfnPermissionSet(...) (lines 171-187)
CamppsDeveloperPermissionSet ==
    [ attr |-> "campps_developer_permission_set",
      logical_id |-> "CamppsDeveloperPermissionSet",
      name |-> "CamppssDeveloper",
      session_duration |-> << "P", "T", "8", "H" >>,
      managed_policy_arns |-> <<
            <<"arn", ":", "aws", ":", "iam", ":", ":", "aws", ":", "policy", "/", "PowerUserAccess">> >>,
      inline_policy |-> CamppsPolicyStatements,
      tags |-> << <<"Role", "Developer">>,
                <<"BusinessUnit", "Apps">>,
                <<"Project", "CAMPPS">>,
                <<"AccessLevel", "PowerUser">> >> ]

\* self.consulting_developer_permission_set = sso.CfnPermissionSet(...) (lines 190-204)
ConsultingDeveloperPermissionSet ==
    [ attr |-> "consulting_developer_permission_set",
      logical_id |-> "ConsultingDeveloperPermissionSet",
      name |-> "ConsultingDeveloper",
      session_duration |-> << "P", "T", "8", "H" >>,
      managed_policy_arns |-> <<
            <<"arn", ":", "aws", ":", "iam", ":", ":", "aws", ":", "policy", "/", "PowerUserAccess">> >>,
      inline_policy |-> <<>>,
      tags |-> << <<"Role", "Developer">>,
                <<"BusinessUnit", "Consulting">>,
                <<"AccessLevel", "PowerUser">> >> ]

\* self.consulting_admin_permission_set = sso.CfnPermissionSet(...) (lines 207-221)
ConsultingAdminPermissionSet ==
    [ attr |-> "consulting_admin_permission_set",
      logical_id |-> "ConsultingAdminPermissionSet",
      name |-> "ConsultingAdministrator",
      session_duration |-> << "P", "T", "4", "H" >>,
      managed_policy_arns |-> <<
            <<"arn", ":", "aws", ":", "iam", ":", ":", "aws", ":", "policy", "/", "AdministratorAccess">> >>,
      inline_policy |-> <<>>,
      tags |-> << <<"Role", "Administrator">>,
                <<"BusinessUnit", "Consulting">>,
                <<"AccessLevel", "Full">> >> ]

\* self.readonly_permission_set = sso.CfnPermissionSet(...) (lines 224-237)
ReadOnlyPermissionSet ==
    [ attr |-> "readonly_permission_set",
      logical_id |-> "ReadOnlyPermissionSet",
      name |-> "ReadOnlyAccess",
      session_duration |-> << "P", "T", "4", "H" >>,
      managed_policy_arns |-> <<
            <<"arn", ":", "aws", ":", "iam", ":", ":", "aws", ":", "policy", "/", "ReadOnlyAccess">> >>,
      inline_policy |-> <<>>,
      tags |-> << <<"Role", "ReadOnly">>,
                <<"AccessLevel", "ReadOnly">> >> ]

\* create_permission_sets: the permission sets in the order they are declared
PermissionSets ==
    << CoreAdminPermissionSet,
       SecurityAuditorPermissionSet,
       BillingManagerPermissionSet,
       MediaDeveloperPermissionSet,
       MediaAdminPermissionSet,
       AppsDeveloperPermissionSet,
       AppsAdminPermissionSet,
       CamppsDeveloperPermissionSet,
       ConsultingDeveloperPermissionSet,
       ConsultingAdminPermissionSet,
       ReadOnlyPermissionSet >>

\* create_outputs of SSOStack: CfnOutput(self, id, value=self.<of>.<attribute>)
SsoOutputs ==
    << [id |-> "CoreAdminPermissionSetArn", attribute |-> "attr_permission_set_arn", of |-> "core_admin_permission_set"],
       [id |-> "SecurityAuditorPermissionSetArn", attribute |-> "attr_permission_set_arn", of |-> "security_auditor_permission_set"],
       [id |-> "BillingManagerPermissionSetArn", attribute |-> "attr_permission_set_arn", of |-> "billing_manager_permission_set"],
       [id |-> "MediaDeveloperPermissionSetArn", attribute |-> "attr_permission_set_arn", of |-> "media_developer_permission_set"],
       [id |-> "MediaAdminPermissionSetArn", attribute |-> "attr_permission_set_arn", of |-> "media_admin_permission_set"],
       [id |-> "AppsDeveloperPermissionSetArn", attribute |-> "attr_permission_set_arn", of |-> "apps_developer_permission_set"],
       [id |-> "AppsAdminPermissionSetArn", attribute |-> "attr_permission_set_arn", of |-> "apps_admin_permission_set"],
       [id |-> "CamppsDeveloperPermissionSetArn", attribute |-> "attr_permission_set_arn", of |-> "campps_developer_permission_set"],
       [id |-> "ConsultingDeveloperPermissionSetArn", attribute |-> "attr_permission_set_arn", of |-> "consulting_developer_permission_set"],
       [id |-> "ConsultingAdminPermissionSetArn", attribute |-> "attr_permission_set_arn", of |-> "consulting_admin_permission_set"],
       [id |-> "ReadOnlyPermissionSetArn", attribute |-> "attr_permission_set_arn", of |-> "readonly_permission_set"] >>

\* ------------------------------------------------------------- src/app.py

\* attributes of a stack instance: a set of <<attribute, value>> pairs
HasAttr(obj, a) == \E p \in obj : p[1] = a
GetAttr(obj, a) == (CHOOSE p \in obj : p[1] = a)[2]
SetAttr(obj, a, v) == {p \in obj : p[1] # a} \cup {<<a, v>>}

\* src/app.py up to the OrganizationStack(...) call: env is built from the
\* process environment as it is, and nothing is checked
OrganizationsApp ==
    /\ pc = "app"
    /\ program = "organizations_app"
    /\ kwargs' = [github_owner |-> None, repo_name |-> None,
                  account |-> environ["CDK_DEFAULT_ACCOUNT"],
                  region |-> EnvironGet(environ, "CDK_DEFAULT_REGION", Some(<<"us-east-1">>))]
    /\ pc' = "organization_stack_init"
    /\ UNCHANGED <<deployVars, bootstrapVars, orgVars, ssoVars, program, environ, context,
                   error, synthesized>>

\* OrganizationStack.__init__ up to the first create_* call (lines 23-26)
OrganizationStackInit ==
    /\ pc = "organization_stack_init"
    /\ org_self' = SetAttr(org_self, "root_id", "r-f3un")
    /\ pc' = "create_organizational_structure"
    /\ UNCHANGED <<deployVars, bootstrapVars, ssoVars, ous, scps, org_outputs, program, environ,
                   context, kwargs, error, synthesized>>

\* faulty variant: parent_id is given the parent's attribute name instead of its ref
CreateOrganizationalUnitParentByAttr ==
    /\ pc = "create_organizational_structure"
    /\ LET decl == OrganizationalUnits[Len(ous) + 1]
       IN /\ ous' = Append(ous, [ logical_id |-> decl.logical_id,
                                  name |-> decl.name,
                                  parent_id |-> decl.parent,
                                  tags |-> decl.tags ])
          /\ org_self' = SetAttr(org_self, decl.attr, decl.logical_id)
          /\ pc' = IF Len(ous) + 1 = Len(OrganizationalUnits)
                   THEN "create_service_control_policies"
                   ELSE "create_organizational_structure"
          /\ UNCHANGED error
    /\ UNCHANGED <<deployVars, bootstrapVars, ssoVars, scps, org_outputs, program, environ,
                   context, kwargs, synthesized>>

\* the next CfnOrganizationalUnit(...) of create_organizational_structure:
\* parent_id is read from an attribute of self, which must already be set
CreateOrganizationalUnit ==
    /\ pc = "create_organizational_structure"
    /\ LET decl == OrganizationalUnits[Len(ous) + 1]
       IN IF ~HasAttr(org_self, decl.parent)
          THEN /\ Raise(<<"AttributeError">>)
               /\ UNCHANGED <<org_self, ous>>
          ELSE /\ ous' = Append(ous, [ logical_id |-> decl.logical_id,
                                       name |-> decl.name,
                                       parent_id |-> GetAttr(org_self, decl.parent),
                                       tags |-> decl.tags ])
               /\ org_self' = SetAttr(org_self, decl.attr, decl.logical_id)
               /\ pc' = IF Len(ous) + 1 = Len(OrganizationalUnits)
                        THEN "create_service_control_policies"
                        ELSE "create_organizational_structure"
               /\ UNCHANGED error
    /\ UNCHANGED <<deployVars, bootstrapVars, ssoVars, scps, org_outputs, program, environ,
                   context, kwargs, synthesized>>

\* faulty variant: the tags of the policy are written onto the units as well
CreateServiceControlPolicyTaggingUnits ==
    /\ pc = "create_service_control_policies"
    /\ LET decl == ServiceControlPolicies[Len(scps) + 1]
       IN IF \E i \in 1..Len(decl.targets) : ~HasAttr(org_self, decl.targets[i])
          THEN /\ Raise(<<"AttributeError">>)
               /\ UNCHANGED <<org_self, scps>>
          ELSE /\ scps' = Append(scps, [ logical_id |-> decl.logical_id,
                                         name |-> decl.name,
                                         type |-> decl.type,
                                         content |-> decl.content,
                                         target_ids |-> [i \in 1..Len(decl.targets) |->
                                                            GetAttr(org_self, decl.targets[i])],
                                         tags |-> decl.tags ])
               /\ org_self' = SetAttr(org_self, decl.attr, decl.logical_id)
               /\ pc' = IF Len(scps) + 1 = Len(ServiceControlPolicies)
                        THEN "create_outputs"
                        ELSE "create_service_control_policies"
               /\ UNCHANGED error
    /\ ous' = [i \in 1..Len(ous) |->
                  [ous[i] EXCEPT !.tags = ServiceControlPolicies[Len(scps) + 1].tags]]
    /\ UNCHANGED <<deployVars, bootstrapVars, ssoVars, org_outputs, program, environ,
                   context, kwargs, synthesized>>

\* the next CfnPolicy(...) of create_service_control_policies
CreateServiceControlPolicy ==
    /\ pc = "create_service_control_policies"
    /\ LET decl == ServiceControlPolicies[Len(scps) + 1]
       IN IF \E i \in 1..Len(decl.targets) : ~HasAttr(org_self, decl.targets[i])
          THEN /\ Raise(<<"AttributeError">>)
               /\ UNCHANGED <<org_self, scps>>
          ELSE /\ scps' = Append(scps, [ logical_id |-> decl.logical_id,
                                         name |-> decl.name,
                                         type |-> decl.type,
                                         content |-> decl.content,
                                         target_ids |-> [i \in 1..Len(decl.targets) |->
                                                            GetAttr(org_self, decl.targets[i])],
                                         tags |-> decl.tags ])
               /\ org_self' = SetAttr(org_self, decl.attr, decl.logical_id)
               /\ pc' = IF Len(scps) + 1 = Len(ServiceControlPolicies)
                        THEN "create_outputs"
                        ELSE "create_service_control_policies"
               /\ UNCHANGED error
    /\ UNCHANGED <<deployVars, bootstrapVars, ssoVars, ous, org_outputs, program, environ,
                   context, kwargs, synthesized>>

\* the next CfnOutput(...) of OrganizationStack.create_outputs
CreateOrganizationOutput ==
    /\ pc = "create_outputs"
    /\ LET decl == OrganizationOutputs[Len(org_outputs) + 1]
       IN IF ~HasAttr(org_self, decl.of)
          THEN /\ Raise(<<"AttributeError">>)
               /\ UNCHANGED org_outputs
          ELSE /\ org_outputs' = Append(org_outputs, [ id |-> decl.id,
                                                       attribute |-> decl.attribute,
                                                       of |-> GetAttr(org_self, decl.of) ])
               /\ pc' = IF Len(org_outputs) + 1 = Len(OrganizationOutputs)
                        THEN "sso_stack_init"
                        ELSE "create_outputs"
               /\ UNCHANGED error
    /\ UNCHANGED <<deployVars, bootstrapVars, ssoVars, org_self, ous, scps, program, environ,
                   context, kwargs, synthesized>>

\* SSOStack.__init__ up to create_permission_sets (lines 34-39)
SsoStackInit ==
    /\ pc = "sso_stack_init"
    /\ sso_self' = SetAttr(SetAttr(sso_self, "organization_stack", "InfiquetraOrganizationStack"),
                           "sso_instance_arn", "arn:aws:sso:::instance/ssoins-7223f05fc9da6e24")
    /\ pc' = "create_permission_sets"
    /\ UNCHANGED <<deployVars, bootstrapVars, orgVars, permission_sets, sso_outputs, program, environ,
                   context, kwargs, error, synthesized>>

\* the next sso.CfnPermissionSet(...) of create_permission_sets
CreatePermissionSet ==
    /\ pc = "create_permission_sets"
    /\ LET decl == PermissionSets[Len(permission_sets) + 1]
       IN /\ permission_sets' =
                Append(permission_sets, [ logical_id |-> decl.logical_id,
                                          name |-> decl.name,
                                          instance_arn |-> GetAttr(sso_self, "sso_instance_arn"),
                                          session_duration |-> decl.session_duration,
                                          managed_policy_arns |-> decl.managed_policy_arns,
                                          inline_policy |-> decl.inline_policy,
                                          tags |-> decl.tags ])
          /\ sso_self' = SetAttr(sso_self, decl.attr, decl.logical_id)
          /\ pc' = IF Len(permission_sets) + 1 = Len(PermissionSets)
                   THEN "create_sso_outputs"
                   ELSE "create_permission_sets"
    /\ UNCHANGED <<deployVars, bootstrapVars, orgVars, sso_outputs, program, environ,
                   context, kwargs, error, synthesized>>

\* the next CfnOutput(...) of SSOStack.create_outputs
CreateSsoOutput ==
    /\ pc = "create_sso_outputs"
    /\ LET decl == SsoOutputs[Len(sso_outputs) + 1]
       IN IF ~HasAttr(sso_self, decl.of)
          THEN /\ Raise(<<"AttributeError">>)
               /\ UNCHANGED sso_outputs
          ELSE /\ sso_outputs' = Append(sso_outputs, [ id |-> decl.id,
                                                       attribute |-> decl.attribute,
                                                       of |-> GetAttr(sso_self, decl.of) ])
               /\ pc' = IF Len(sso_outputs) + 1 = Len(SsoOutputs)
                        THEN "constructed"
                        ELSE "create_sso_outputs"
               /\ UNCHANGED error
    /\ UNCHANGED <<deployVars, bootstrapVars, orgVars, sso_self, permission_sets, program, environ,
                   context, kwargs, synthesized>>

\* github-oidc-bootstrap/app.py after the constructor: cdk.Tags.of(app).add(...)
AppTags ==
    << <<"Project", <<"Infiquetra Organizations">> >>,
       <<"Environment", <<"Bootstrap">> >>,
       <<"ManagedBy", <<"CDK">> >> >>

ApplyAppTags ==
    /\ pc = "constructed"
    /\ program = "bootstrap_app"
    /\ tags' = tags \o AppTags
    /\ pc' = "app_tagged"
    /\ UNCHANGED <<deployVars, orgVars, ssoVars, program, environ, context, kwargs, self, provider, roles,
                   policies, outputs, metadata, error, synthesized, request>>

\* app.synth() at the end of either app.py, or Template.from_stack(stack) of the
\* unit tests: the constructed stacks are rendered to a document
Synth ==
    /\ \/ pc = "constructed" /\ program # "bootstrap_app"
       \/ pc = "app_tagged"
    /\ synthesized' = TRUE
    /\ pc' = "done"
    /\ UNCHANGED <<deployVars, orgVars, ssoVars, program, environ, context, kwargs, self, provider, roles, policies,
                   outputs, metadata, tags, error, request>>

\* the stacks src/app.py adds to the app, in the order it constructs them
AppStacks == << "InfiquetraOrganizationStack", "InfiquetraSSOStack" >>

\* provisioning of the synthesized app: a stack is applied once every stack it
\* depends on is applied; stacks with no dependency between them are applied
\* in any order (or one of them alone)
ApplyStack ==
    /\ pc = "done"
    /\ program = "organizations_app"
    /\ \E stack \in Range(AppStacks) \ Range(applied) :
          /\ \A d \in dependencies : d[1] = stack => d[2] \in Range(applied)
          /\ applied' = Append(applied, stack)
    /\ pc' = IF Len(applied) + 1 = Len(AppStacks) THEN "deployed" ELSE "done"
    /\ UNCHANGED <<bootstrapVars, orgVars, ssoVars, dependencies, program, environ,
                   context, kwargs, error, synthesized>>

\* ------------------------------------------------- evaluation of the trust

\* the value of a condition key in the request context of a web-identity token
ContextValue(token, key) ==
    IF key = AudKey THEN Some(token.aud)
    ELSE IF key = SubKey THEN Some(token.sub)
    ELSE None

\* one <<operator, key, values>> entry: the key is present and one of the values matches
ConditionHolds(c, token) ==
    LET v == ContextValue(token, c[2])
    IN /\ v.some
       /\ \E i \in 1..Len(c[3]) :
             IF c[1] = "StringEquals" THEN c[3][i] = v.val
             ELSE IF c[1] = "StringLike" THEN Like(c[3][i], v.val)
             ELSE FALSE

\* the trust document allows the call: some Allow statement covers the action
\* and all of its condition entries hold
TrustPolicyAllows(document, action, token) ==
    \E i \in 1..Len(document) :
        /\ document[i].effect = "Allow"
        /\ \E j \in 1..Len(document[i].actions) : Like(document[i].actions[j], action)
        /\ \A c \in document[i].conditions : ConditionHolds(c, token)

\* a workflow run presents its token to the deployed role (the role is deployed
\* by the application only; a directly constructed stack is never deployed)
AssumeRoleWithWebIdentity ==
    /\ pc = "done"
    /\ program = "bootstrap_app"
    /\ pc' = "assumed"
    /\ \E token \in WebIdentityTokens :
          request' = [made |-> TRUE, aud |-> token.aud, sub |-> token.sub,
                      allowed |-> TrustPolicyAllows(roles[Len(roles)].assume_role_policy,
                                                    Act("sts", "AssumeRoleWithWebIdentity"),
                                                    token)]
    /\ UNCHANGED <<deployVars, orgVars, ssoVars, program, environ, context, kwargs, self, provider, roles, policies,
                   outputs, metadata, tags, error, synthesized>>

\* ------------------------------------------------------------------ claims

\* the parent references declared for the unit with logical id `id`
ParentRefs(units, id) ==
    { units[i].parent_id : i \in {j \in 1..Len(units) : units[j].logical_id = id} }

\* following parent references from `id` arrives at `root` within `steps` steps
RECURSIVE ReachesRoot(_, _, _, _)
ReachesRoot(units, root, id, steps) ==
    IF id = root THEN TRUE
    ELSE IF steps = 0 THEN FALSE
    ELSE \E p \in ParentRefs(units, id) : ReachesRoot(units, root, p, steps - 1)

DeclaredUnitNames == {"Core", "Media", "Apps", "Consulting", "CAMPPS", "Production", "NonProd"}

StructureCreated ==
    /\ program = "organizations_app"
    /\ pc \notin {"app", "organization_stack_init", "create_organizational_structure", "error"}

\* C1: after create_organizational_structure the seven declared units (Core,
\* Media, Apps, Consulting, CAMPPS, Production, NonProd) each have exactly one
\* parent reference, and following parent references from any of them reaches
\* self.root_id within as many steps as there are units (so there is no cycle).
C1_TreeInvariant ==
    StructureCreated =>
        /\ {ous[i].name : i \in 1..Len(ous)} = DeclaredUnitNames
        /\ \A i \in 1..Len(ous) :
               /\ Cardinality({j \in 1..Len(ous) : ous[j].logical_id = ous[i].logical_id}) = 1
               /\ Cardinality(ParentRefs(ous, ous[i].logical_id)) = 1
               /\ ous[i].logical_id # GetAttr(org_self, "root_id")
               /\ ReachesRoot(ous, GetAttr(org_self, "root_id"), ous[i].logical_id, Len(ous))

\* the structure has just been created, and it has a unit three levels below the root
C1_Witness ==
    /\ pc = "create_service_control_policies"
    /\ Len(scps) = 0
    /\ \E i \in 1..Len(ous) :
          /\ ous[i].name = "NonProd"
          /\ ~ReachesRoot(ous, GetAttr(org_self, "root_id"), ous[i].logical_id, 2)
          /\ ReachesRoot(ous, GetAttr(org_self, "root_id"), ous[i].logical_id, 3)

\* the subject patterns configured in a trust statement
SubjectPatterns(statement) ==
    UNION { Range(c[3]) : c \in {d \in statement.conditions : d[1] = "StringLike" /\ d[2] = SubKey} }

RepositoryKey == "token.actions.githubusercontent.com:repository"
ActorKey == "token.actions.githubusercontent.com:actor"
ExpectedSubjects(repo_full_name) ==
    << <<"repo", ":">> \o repo_full_name \o <<":", "ref", ":", "refs", "/", "heads", "/", "main">>,
       <<"repo", ":">> \o repo_full_name \o <<":", "ref", ":", "refs", "/", "heads", "/", "develop">>,
       <<"repo", ":">> \o repo_full_name \o <<":", "pull_request", ":", "refs", "/", "heads", "/", "main">> >>
ExpectedActors == << <<"infiquetra", "/", "*">>, <<"github-actions[bot]">> >>

\* C3: the trust policy of the deploy role restricts assumption to the
\* configured repository: StringEquals binds the repository claim to
\* "<owner>/<repo>", the StringLike subject condition is exactly the three
\* branch / pull-request patterns of that repository, and the StringLike actor
\* condition is exactly ["infiquetra/*", "github-actions[bot]"].
C3_RepositoryRestrictedTrust ==
    \A i \in 1..Len(roles) :
        LET conditions == roles[i].assume_role_policy[1].conditions
        IN /\ << "StringEquals", RepositoryKey, << self.repo_full_name >> >> \in conditions
           /\ << "StringLike", SubKey, ExpectedSubjects(self.repo_full_name) >> \in conditions
           /\ << "StringLike", ActorKey, ExpectedActors >> \in conditions

\* C4: every federated trust built by GitHubOIDCStack has a non-empty set of
\* subject patterns, and its StringEquals condition binds the audience claim
\* to "sts.amazonaws.com".
C4_TrustConditionCompleteness ==
    \A i \in 1..Len(roles) :
        \A k \in 1..Len(roles[i].assume_role_policy) :
            LET statement == roles[i].assume_role_policy[k]
            IN /\ SubjectPatterns(statement) # {}
               /\ \E c \in statement.conditions :
                     /\ c[1] = "StringEquals"
                     /\ c[2] = AudKey
                     /\ c[3] = << <<"sts.amazonaws.com">> >>

\* the role with its federated trust has just been declared
C4_Witness ==
    /\ pc = "create_cdk_deployment_policy"
    /\ Len(roles) = 1
    /\ roles[1].assume_role_policy[1].federated = "GitHubOIDCProvider"

\* the condition operators a statement carries
Operators(statement) == {c[1] : c \in statement.conditions}

\* C5: the trust document of the federated role has exactly one statement; its
\* effect is Allow, its only action is sts:AssumeRoleWithWebIdentity, and it
\* carries both a StringEquals and a StringLike condition.
C5_SingleWebIdentityStatement ==
    \A i \in 1..Len(roles) :
        LET document == roles[i].assume_role_policy
        IN /\ Len(document) = 1
           /\ document[1].effect = "Allow"
           /\ document[1].actions = << Act("sts", "AssumeRoleWithWebIdentity") >>
           /\ {"StringEquals", "StringLike"} \subseteq Operators(document[1])

\* the stack is fully constructed and its role carries the trust document
C5_Witness ==
    /\ pc = "constructed"
    /\ program = "construct"
    /\ Len(roles) = 1
    /\ Len(roles[1].assume_role_policy) = 1

\* the resolved owner or repository name is empty or contains a forward slash
MalformedIdentity(s) ==
    \/ s.github_owner = <<>>
    \/ s.repo_name = <<>>
    \/ "/" \in Range(s.github_owner)
    \/ "/" \in Range(s.repo_name)

\* the GitHubOIDCStack constructor has run its validation
Validated ==
    /\ program \in {"bootstrap_app", "construct"}
    /\ pc \notin {"app", "stack_init", "validate"}
    /\ self # NoSelf

\* C6: when the resolved GitHub owner or repository name is empty or contains
\* a forward slash, constructing GitHubOIDCStack raises an error, and no OIDC
\* provider, role, managed policy or stack output has been declared (nor is a
\* document ever produced).
C6_MalformedIdentityRaises ==
    (Validated /\ MalformedIdentity(self)) =>
        /\ pc = "error"
        /\ error # <<>>
        /\ provider = <<>>
        /\ roles = <<>>
        /\ policies = <<>>
        /\ outputs = <<>>
        /\ ~synthesized

\* construction was aborted because the repository name contains a slash
C6_Witness ==
    /\ pc = "error"
    /\ self.github_owner # <<>>
    /\ "/" \notin Range(self.github_owner)
    /\ "/" \in Range(self.repo_name)
    /\ error = <<"Repository name cannot contain forward slashes">>

\* C7: for every stack (GitHubOIDCStack, OrganizationStack, SSOStack), when
\* the account identifier or the region is unset at construction, synthesis
\* aborts with a configuration error and no document is produced.
C7_UnsetEnvironmentRaises ==
    (pc # "app" /\ (~kwargs.account.some \/ ~kwargs.region.some)) =>
        /\ ~synthesized
        /\ pc \notin {"constructed", "app_tagged", "done", "assumed", "deployed"}

\* the denylist of test_no_overly_permissive_policies
DangerousWildcards ==
    { Act("iam", "*"), Act("s3", "*"), Act("cloudformation", "*"),
      Act("organizations", "*"), Act("sso", "*"), Act("sso-admin", "*"),
      Act("identitystore", "*"), Act("cloudtrail", "*") }

\* the statement's resource set is exactly {"*"}
UniversalResource(statement) == Range(statement.resources) = { <<"*">> }

\* the wildcard-danger property of one statement
NoDangerousWildcard(statement) ==
    UniversalResource(statement) => Range(statement.actions) \cap DangerousWildcards = {}

\* C8: in the CDK deployment policy, no statement whose resource set is exactly
\* {"*"} has an action of the denylist (iam:*, s3:*, cloudformation:*,
\* organizations:*, sso:*, sso-admin:*, identitystore:*, cloudtrail:*).
C8_DeploymentPolicyNoDangerousWildcard ==
    \A i \in 1..Len(policies) :
        policies[i].logical_id = "CDKDeploymentPolicy" =>
            \A k \in 1..Len(policies[i].statements) :
                NoDangerousWildcard(policies[i].statements[k])

\* the deployment policy is declared and has statements on the universal resource
C8_Witness ==
    /\ pc = "create_serverless_policy"
    /\ Len(policies) = 1
    /\ policies[1].logical_id = "CDKDeploymentPolicy"
    /\ \E k \in 1..Len(policies[1].statements) : UniversalResource(policies[1].statements[k])

ServiceDomainPolicies ==
    { "ServerlessPolicy", "EventDrivenPolicy", "EdgeServicesPolicy",
      "DataAnalyticsPolicy", "SecurityPolicy", "InfrastructurePolicy" }

\* all six service-domain policies are declared
ServiceDomainPoliciesDeclared ==
    ServiceDomainPolicies \subseteq {policies[i].logical_id : i \in 1..Len(policies)}

\* an action of the full-service wildcard form "<service>:*"
FullServiceWildcard(action) == Len(action) = 3 /\ action[2] = ":" /\ action[3] = "*"

\* C9 (as claimed): each of the six service-domain policies has a statement
\* whose resource set is {"*"} and whose actions include a member of the
\* denylist, so the wildcard-danger property fails for each of them.
C9_ServiceDomainFailsWildcardDanger ==
    ServiceDomainPoliciesDeclared =>
        \A i \in 1..Len(policies) :
            policies[i].logical_id \in ServiceDomainPolicies =>
                \E k \in 1..Len(policies[i].statements) :
                    ~NoDangerousWildcard(policies[i].statements[k])

\* C9 (amended): each of the six service-domain policies has a statement whose
\* resource set is {"*"} and whose actions include a full-service wildcard
\* "<service>:*", but no such statement has an action of the denylist: the
\* wildcard-danger property holds for the service-domain policies too.
C9_ServiceDomainWildcardsOutsideDenylist ==
    ServiceDomainPoliciesDeclared =>
        \A i \in 1..Len(policies) :
            policies[i].logical_id \in ServiceDomainPolicies =>
                /\ \E k \in 1..Len(policies[i].statements) :
                      /\ UniversalResource(policies[i].statements[k])
                      /\ \E a \in Range(policies[i].statements[k].actions) : FullServiceWildcard(a)
                /\ \A k \in 1..Len(policies[i].statements) :
                      NoDangerousWildcard(policies[i].statements[k])

\* the last of the six service-domain policies has just been declared
C9_Witness ==
    /\ pc = "add_managed_policy"
    /\ ServiceDomainPoliciesDeclared
    /\ roles[1].managed_policies = <<>>

\* the Organizations write actions
OrganizationsWriteActions ==
    { Act("organizations", "CreateAccount"), Act("organizations", "CreateOrganizationalUnit"),
      Act("organizations", "UpdateOrganizationalUnit"), Act("organizations", "MoveAccount"),
      Act("organizations", "TagResource"), Act("organizations", "UntagResource"),
      Act("organizations", "AttachPolicy"), Act("organizations", "DetachPolicy") }

\* the statement grants an Organizations write action, by name or by wildcard
GrantsOrganizationsWrite(statement) ==
    /\ statement.effect = "Allow"
    /\ \E n \in 1..Len(statement.actions) :
          LET a == statement.actions[n]
          IN \/ a \in OrganizationsWriteActions
             \/ (\E t \in 1..Len(a) : a[t] = "*")
                   /\ \E w \in OrganizationsWriteActions : Like(a, w)

RegionCondition == << "StringEquals", "aws:RequestedRegion", << <<"us-east-1">> >> >>

\* the managed policies attached to a role
AttachedPolicies(role) ==
    { policies[i] : i \in {j \in 1..Len(policies) :
                              policies[j].logical_id \in Range(role.managed_policies)} }

\* C10: in every policy attached to the deploy role, every Allow statement
\* that grants an Organizations write action (by name or by a wildcard that
\* covers it) carries the condition StringEquals aws:RequestedRegion =
\* "us-east-1".
C10_OrganizationsWritesRegionBound ==
    \A i \in 1..Len(roles), j \in 1..Len(policies) :
        policies[j].logical_id \in Range(roles[i].managed_policies) =>
            \A k \in 1..Len(policies[j].statements) :
                GrantsOrganizationsWrite(policies[j].statements[k]) =>
                    RegionCondition \in policies[j].statements[k].conditions

\* all seven policies are attached, one of them granting Organizations writes
C10_Witness ==
    /\ pc = "output_role_arn"
    /\ Cardinality(AttachedPolicies(roles[1])) = 7
    /\ \E p \in AttachedPolicies(roles[1]) :
          \E k \in 1..Len(p.statements) : GrantsOrganizationsWrite(p.statements[k])

\* a composed policy document: a non-empty statement list whose statements
\* each have a non-empty action list and a non-empty resource list
NonEmptyDocument(statements) ==
    /\ Len(statements) > 0
    /\ \A k \in 1..Len(statements) :
          /\ Len(statements[k].actions) > 0
          /\ Len(statements[k].resources) > 0

\* C12: every composed policy document (the seven managed policies of the
\* deploy role, both service-control policies and the inline policy of the
\* CAMPPS developer permission set) has a non-empty statement list, and every
\* statement of it has a non-empty action list and a non-empty resource list.
C12_PolicyNonEmptiness ==
    /\ \A i \in 1..Len(policies) : NonEmptyDocument(policies[i].statements)
    /\ \A i \in 1..Len(scps) : NonEmptyDocument(scps[i].content)
    /\ \A i \in 1..Len(permission_sets) :
          permission_sets[i].logical_id = "CamppsDeveloperPermissionSet" =>
              NonEmptyDocument(permission_sets[i].inline_policy)

\* both service-control policies and the CAMPPS permission set are declared
\* and the application has synthesized them
C12_Witness ==
    /\ pc = "done"
    /\ Len(scps) = 2
    /\ \E i \in 1..Len(permission_sets) :
          /\ permission_sets[i].logical_id = "CamppsDeveloperPermissionSet"
          /\ Len(permission_sets[i].inline_policy) = 2

\* the ceiling of a session: 12 hours in seconds (test_session_duration_limit)
MaxSessionSeconds == 43200

DigitValue(c) ==
    CASE c = "0" -> 0 [] c = "1" -> 1 [] c = "2" -> 2 [] c = "3" -> 3 [] c = "4" -> 4
      [] c = "5" -> 5 [] c = "6" -> 6 [] c = "7" -> 7 [] c = "8" -> 8 [] c = "9" -> 9

\* the seconds an ISO 8601 duration "PT<n>H<n>M<n>S" stands for: n is the
\* number read so far, total the seconds of the designators already closed
RECURSIVE DurationSeconds(_, _, _)
DurationSeconds(chars, n, total) ==
    IF chars = <<>> THEN total
    ELSE LET c == Head(chars)
         IN IF c \in {"0", "1", "2", "3", "4", "5", "6", "7", "8", "9"}
               THEN DurationSeconds(Tail(chars), n * 10 + DigitValue(c), total)
            ELSE IF c = "H" THEN DurationSeconds(Tail(chars), 0, total + n * 3600)
            ELSE IF c = "M" THEN DurationSeconds(Tail(chars), 0, total + n * 60)
            ELSE IF c = "S" THEN DurationSeconds(Tail(chars), 0, total + n)
            ELSE DurationSeconds(Tail(chars), n, total)

\* C13: the session duration of every declared permission set is at most 12
\* hours (43200 seconds), and the maximum session duration of the deploy role
\* is exactly 43200 seconds.
C13_SessionDurationBound ==
    /\ \A i \in 1..Len(permission_sets) :
          DurationSeconds(permission_sets[i].session_duration, 0, 0) <= MaxSessionSeconds
    /\ \A i \in 1..Len(roles) : roles[i].max_session_duration = MaxSessionSeconds

\* all eleven permission sets are declared: some last 4 hours, some 8, and one
\* sits on the ceiling
C13_Witness ==
    /\ Len(permission_sets) = Len(PermissionSets)
    /\ \E i, j, k \in 1..Len(permission_sets) :
          /\ DurationSeconds(permission_sets[i].session_duration, 0, 0) = 4 * 3600
          /\ DurationSeconds(permission_sets[j].session_duration, 0, 0) = 8 * 3600
          /\ DurationSeconds(permission_sets[k].session_duration, 0, 0) = MaxSessionSeconds

\* construction has returned: every constructor of the program has run to its end
Constructed == pc \in {"constructed", "app_tagged", "done", "assumed", "deployed"}

\* the outputs of the sequence outs that carry `attribute` of the resource id
OutputsOf(outs, attribute, id) ==
    { j \in 1..Len(outs) : outs[j].of = id /\ outs[j].attribute = attribute }

OutputIds(outs, id) == { j \in 1..Len(outs) : outs[j].id = id }

\* C15: after construction every declared organizational unit has exactly one
\* output carrying its identifier, every declared permission set exactly one
\* output carrying its ARN, the deploy role and the OIDC provider each have an
\* output (GitHubActionsRoleArn, GitHubOIDCProviderArn), and every output
\* refers to a declared resource (so no two outputs refer to the same one).
C15_NamedOutputCompleteness ==
    Constructed =>
        /\ \A i \in 1..Len(ous) :
              Cardinality(OutputsOf(org_outputs, "ref", ous[i].logical_id)) = 1
        /\ \A j \in 1..Len(org_outputs) :
              /\ org_outputs[j].attribute = "ref"
              /\ \E i \in 1..Len(ous) : ous[i].logical_id = org_outputs[j].of
        /\ Len(org_outputs) = Len(ous)
        /\ \A i \in 1..Len(permission_sets) :
              Cardinality(OutputsOf(sso_outputs, "attr_permission_set_arn",
                                    permission_sets[i].logical_id)) = 1
        /\ \A j \in 1..Len(sso_outputs) :
              /\ sso_outputs[j].attribute = "attr_permission_set_arn"
              /\ \E i \in 1..Len(permission_sets) :
                    permission_sets[i].logical_id = sso_outputs[j].of
        /\ Len(sso_outputs) = Len(permission_sets)
        /\ \A i \in 1..Len(roles) :
              /\ Cardinality(OutputsOf(outputs, "role_arn", roles[i].logical_id)) = 1
              /\ OutputIds(outputs, "GitHubActionsRoleArn")
                     = OutputsOf(outputs, "role_arn", roles[i].logical_id)
        /\ \A i \in 1..Len(provider) :
              /\ Cardinality(OutputsOf(outputs, "open_id_connect_provider_arn",
                                       provider[i].logical_id)) = 1
              /\ OutputIds(outputs, "GitHubOIDCProviderArn")
                     = OutputsOf(outputs, "open_id_connect_provider_arn",
                                 provider[i].logical_id)
        /\ Len(outputs) = Len(roles) + Len(provider)

\* the organization application has constructed both stacks: seven units and
\* eleven permission sets, each with its output
C15_Witness ==
    /\ pc = "constructed"
    /\ program = "organizations_app"
    /\ Len(ous) = 7 /\ Len(org_outputs) = 7
    /\ Len(permission_sets) = 11 /\ Len(sso_outputs) = 11

\* deployment of the template: CloudFormation replaces the pseudo parameters
\* by the account and the region the stack is deployed to
Resolve(arn, account, region) ==
    LET part(i) == IF <<arn[i]>> = AwsAccountId THEN account
                   ELSE IF <<arn[i]>> = AwsRegion THEN region
                   ELSE <<arn[i]>>
        join[i \in 0..Len(arn)] == IF i = 0 THEN <<>> ELSE join[i - 1] \o part(i)
    IN join[Len(arn)]

\* the accounts / regions a stack can be deployed to: the one of its env, or
\* any when the stack is environment-agnostic
DeployAccounts(s) ==
    IF s.account = AwsAccountId THEN {TestAccount, <<"645166163764">>} ELSE {s.account}
DeployRegions(s) ==
    IF s.region = AwsRegion THEN {TestRegion, <<"eu-west-1">>} ELSE {s.region}

\* arn:aws:cloudformation:<region>:<account>:stack/*-Organizations-*/*
OrganizationsStackArn(account, region) ==
    <<"arn", ":", "aws", ":", "cloudformation", ":">> \o region \o <<":">> \o account
        \o <<":", "stack", "/", "*", "-Organizations-", "*", "/", "*">>

\* C16: the deployment policy composed for a stack has a statement whose
\* resources include arn:aws:cloudformation:<region>:<account>:stack/*-Organizations-*/*
\* with the account and the region of the deployment in place, and whose
\* actions include cloudformation:DescribeStacks.
C16_OrganizationsStackScope ==
    \A i \in 1..Len(policies) :
        policies[i].logical_id = "CDKDeploymentPolicy" =>
            \A account \in DeployAccounts(self), region \in DeployRegions(self) :
                \E k \in 1..Len(policies[i].statements) :
                    LET statement == policies[i].statements[k]
                    IN /\ statement.effect = "Allow"
                       /\ Act("cloudformation", "DescribeStacks") \in Range(statement.actions)
                       /\ \E r \in Range(statement.resources) :
                             Resolve(r, account, region)
                                 = OrganizationsStackArn(account, region)

\* the application has composed the policy for an account and a region other
\* than the defaults
C16_Witness ==
    /\ pc = "done"
    /\ program = "bootstrap_app"
    /\ self.account = <<"645166163764">>
    /\ self.region = <<"eu-west-1">>
    /\ \E i \in 1..Len(policies) : policies[i].logical_id = "CDKDeploymentPolicy"

\* the reference a declaration's parent attribute stands for: the root
\* identifier, or the unit declared under that attribute
DeclaredParent(decl) ==
    IF decl.parent = "root_id" THEN "r-f3un"
    ELSE (CHOOSE d \in Range(OrganizationalUnits) : d.attr = decl.parent).logical_id

\* C17: the unit "Core" has the organization root r-f3un as its parent
\* reference and the tag Purpose = "Shared Services"; every declared unit
\* carries exactly the name, the parent reference and the tag entries of its
\* definition.
C17_UnitsAsDefined ==
    /\ \A i \in 1..Len(ous) :
          ous[i].name = "Core" =>
              /\ ous[i].parent_id = "r-f3un"
              /\ <<"Purpose", "Shared Services">> \in Range(ous[i].tags)
    /\ Len(ous) >= 1 => ous[1].name = "Core"
    /\ \A i \in 1..Len(ous) :
          \E d \in Range(OrganizationalUnits) :
              /\ d.logical_id = ous[i].logical_id
              /\ ous[i].name = d.name
              /\ ous[i].parent_id = DeclaredParent(d)
              /\ ous[i].tags = d.tags

\* the structure is complete and synthesized, Core and its nested units included
C17_Witness ==
    /\ pc = "done"
    /\ Len(ous) = 7
    /\ \E i, j \in 1..Len(ous) :
          /\ ous[i].name = "Core"
          /\ ous[j].parent_id \notin {"r-f3un"}

\* the inline policy resources (AWS::IAM::Policy) declared in the stack
InlinePolicies == { i \in 1..Len(policies) : policies[i].type = "AWS::IAM::Policy" }

\* C18: the constructed GitHubOIDCStack declares exactly one AWS::IAM::Policy
\* resource, named "infiquetra-aws-infra-gha-deployment-policy", attached to
\* the deploy role, and that document holds the deployment permissions.
C18_SingleInlineDeploymentPolicy ==
    (Constructed /\ Len(roles) > 0) =>
        /\ Cardinality(InlinePolicies) = 1
        /\ \A i \in InlinePolicies :
              /\ policies[i].managed_policy_name
                     = "infiquetra-aws-infra-gha-deployment-policy"
              /\ policies[i].logical_id \in Range(roles[1].managed_policies)
              /\ policies[i].statements = CdkDeploymentPolicyStatements

\* the thumbprint list test_oidc_provider_creation expects
ExpectedThumbprints ==
    << <<"6938fd4d98bab03faadb97b34396831e3780aea1">>,
       <<"1c58a3a8518e8759bf075b76b750d4f2df264fcd">> >>

\* C19: the OIDC provider is declared with the issuer URL
\* https://token.actions.githubusercontent.com, the client-id list exactly
\* ["sts.amazonaws.com"] and the thumbprint list exactly the two GitHub
\* thumbprints 6938fd4d... and 1c58a3a8....
C19_OidcProviderDeclaration ==
    \A i \in 1..Len(provider) :
        /\ provider[i].url = <<"https", ":", "/", "/", "token.actions.githubusercontent.com">>
        /\ provider[i].client_ids = << <<"sts.amazonaws.com">> >>
        /\ provider[i].thumbprints = ExpectedThumbprints

\* C20: every statement of the six service-domain policies has effect Allow,
\* the resource list exactly ["*"], no condition, and only actions of the
\* full-service wildcard form "<service>:*" for a named service.
C20_ServiceDomainStatementForm ==
    \A i \in 1..Len(policies) :
        policies[i].logical_id \in ServiceDomainPolicies =>
            \A k \in 1..Len(policies[i].statements) :
                LET statement == policies[i].statements[k]
                IN /\ statement.effect = "Allow"
                   /\ Range(statement.resources) = { <<"*">> }
                   /\ statement.conditions = {}
                   /\ \A a \in Range(statement.actions) :
                         FullServiceWildcard(a) /\ a[1] # "*"

\* the six service-domain policies are declared, attached and synthesized
C20_Witness ==
    /\ pc = "done"
    /\ ServiceDomainPoliciesDeclared
    /\ ServiceDomainPolicies \subseteq Range(roles[1].managed_policies)

\* the create / update / delete / put / attach / tag actions on CloudFormation
\* stacks, IAM roles, IAM policies, S3 buckets and objects, and SSM parameters
MutatingActions ==
    { Act("cloudformation", n) : n \in {"CreateStack", "UpdateStack", "DeleteStack",
                                        "CreateChangeSet", "DeleteChangeSet"} }
    \cup { Act("iam", n) : n \in {"CreateRole", "UpdateRole", "UpdateAssumeRolePolicy",
                                  "DeleteRole", "PutRolePolicy", "DeleteRolePolicy",
                                  "AttachRolePolicy", "TagRole", "CreatePolicy",
                                  "CreatePolicyVersion", "DeletePolicy",
                                  "DeletePolicyVersion", "TagPolicy"} }
    \cup { Act("s3", n) : n \in {"CreateBucket", "DeleteBucket", "DeleteBucketPolicy",
                                 "DeleteObject", "DeleteObjectVersion", "PutObject",
                                 "PutObjectAcl", "PutBucketAcl", "PutBucketCORS",
                                 "PutBucketLogging", "PutBucketNotification",
                                 "PutBucketPolicy", "PutBucketPublicAccessBlock",
                                 "PutBucketTagging", "PutBucketVersioning",
                                 "PutBucketWebsite", "PutEncryptionConfiguration",
                                 "PutLifecycleConfiguration"} }
    \cup { Act("ssm", n) : n \in {"PutParameter", "DeleteParameter"} }

\* the statement grants one of the mutating actions, by name or by wildcard
GrantsMutation(statement) ==
    \E n \in 1..Len(statement.actions) :
        LET a == statement.actions[n]
        IN \/ a \in MutatingActions
           \/ (\E t \in 1..Len(a) : a[t] = "*") /\ \E m \in MutatingActions : Like(a, m)

\* every resource of the statement is an ARN pattern, none the universal "*"
ResourceScoped(statement) ==
    \A r \in Range(statement.resources) : Len(r) > 1 /\ r[1] = "arn" /\ r[2] = ":"

\* C21: in the deployment policy, a statement that grants a create / update /
\* delete / put / attach / tag action on stacks, roles, policies, buckets,
\* objects or parameters has ARN patterns only as resources; a statement on
\* the universal resource "*" grants none of them; and at least one statement
\* is resource-scoped.
C21_DeploymentResourceScoping ==
    \A i \in 1..Len(policies) :
        policies[i].logical_id = "CDKDeploymentPolicy" =>
            /\ \A k \in 1..Len(policies[i].statements) :
                  LET statement == policies[i].statements[k]
                      mutating == GrantsMutation(statement)
                  IN /\ mutating => ResourceScoped(statement)
                     /\ UniversalResource(statement) => ~mutating
            /\ \E k \in 1..Len(policies[i].statements) :
                  ResourceScoped(policies[i].statements[k])

\* the deployment policy is declared and synthesized, with scoped mutating
\* statements and discovery statements on "*" side by side
C21_Witness ==
    /\ pc = "done"
    /\ \E i \in 1..Len(policies) :
          /\ policies[i].logical_id = "CDKDeploymentPolicy"
          /\ \E k, l \in 1..Len(policies[i].statements) :
                /\ GrantsMutation(policies[i].statements[k])
                /\ ResourceScoped(policies[i].statements[k])
                /\ UniversalResource(policies[i].statements[l])

\* the logical ids of the units in a sequence of declared units
UnitIds(units) == { units[i].logical_id : i \in 1..Len(units) }

\* C22: at every step of the construction of OrganizationStack, a newly
\* defined unit has the root or a unit defined at an earlier step as its
\* parent; a newly defined service-control policy targets only units defined
\* earlier and comes after the whole structure; a new output carries a unit
\* defined earlier and comes after both policies; and no step fails on a node
\* that is not defined yet.
C22_DefinitionOrder ==
    [][ /\ Len(ous') > Len(ous) =>
              /\ ous'[Len(ous')].parent_id \in {"r-f3un"} \cup UnitIds(ous)
              /\ scps = <<>> /\ org_outputs = <<>>
        /\ Len(scps') > Len(scps) =>
              /\ Range(scps'[Len(scps')].target_ids) \subseteq UnitIds(ous)
              /\ Len(ous) = Len(OrganizationalUnits)
              /\ org_outputs = <<>>
        /\ Len(org_outputs') > Len(org_outputs) =>
              /\ org_outputs'[Len(org_outputs')].of \in UnitIds(ous)
              /\ Len(scps) = Len(ServiceControlPolicies)
        /\ error' # <<"AttributeError">> ]_vars

\* construction is in the middle of the outputs: the structure and both
\* policies are defined, and three of the outputs
C22_Witness ==
    /\ pc = "create_outputs"
    /\ Len(ous) = 7
    /\ Len(scps) = 2
    /\ Len(org_outputs) = 3

\* the positions at which the policy `id` is attached to the role
Attachments(role, id) ==
    { n \in 1..Len(role.managed_policies) : role.managed_policies[n] = id }

\* the seven managed policies composed by GitHubOIDCStack
ComposedPolicies ==
    { "CDKDeploymentPolicy", "ServerlessPolicy", "EventDrivenPolicy", "EdgeServicesPolicy",
      "DataAnalyticsPolicy", "SecurityPolicy", "InfrastructurePolicy" }

\* C23: after the construction of GitHubOIDCStack completes, each of the seven
\* composed managed policies is attached to the deploy role exactly once,
\* every composed policy is attached to exactly one role, and the trust of the
\* role names the OIDC provider created in the same construction.
C23_AttachmentCompleteness ==
    (Constructed /\ program # "organizations_app") =>
        /\ Len(roles) = 1 /\ Len(provider) = 1
        /\ { policies[i].logical_id : i \in 1..Len(policies) } = ComposedPolicies
        /\ Len(policies) = 7
        /\ \A i \in 1..Len(policies) :
              /\ Cardinality(Attachments(roles[1], policies[i].logical_id)) = 1
              /\ Cardinality({ r \in 1..Len(roles) :
                                  Attachments(roles[r], policies[i].logical_id) # {} }) = 1
        /\ Len(roles[1].managed_policies) = 7
        /\ \A k \in 1..Len(roles[1].assume_role_policy) :
              roles[1].assume_role_policy[k].federated = provider[1].logical_id

\* a directly constructed stack has returned from __init__ with its role,
\* provider and policies
C23_Witness ==
    /\ pc = "constructed"
    /\ program = "construct"
    /\ Len(policies) = 7
    /\ Len(roles[1].managed_policies) = 7

\* C24: a unit is never changed after its creation: every step keeps each
\* declared unit's name, parent reference and tags, and the steps of
\* create_service_control_policies, create_outputs and of the construction of
\* SSOStack (and the synthesis after them) leave the declared units as they are.
C24_UnitsNeverMutated ==
    [][ /\ Len(ous') >= Len(ous)
        /\ \A i \in 1..Len(ous) : ous'[i] = ous[i]
        /\ pc # "create_organizational_structure" => ous' = ous ]_vars

\* SSOStack, which received the OrganizationStack, is declaring its outputs and
\* the seven units are in place
C24_Witness ==
    /\ pc = "create_sso_outputs"
    /\ Len(ous) = 7
    /\ Len(scps) = 2
    /\ Len(sso_outputs) = 5

\* the position of a stack in the order of provisioning, 0 when not applied
AppliedAt(stack) ==
    IF stack \in Range(applied)
    THEN CHOOSE n \in 1..Len(applied) : applied[n] = stack
    ELSE 0

\* C25: the application declares the dependency of SSOStack on
\* OrganizationStack, so that whenever SSOStack is applied, OrganizationStack
\* was applied before it.
C25_SsoAfterOrganization ==
    AppliedAt("InfiquetraSSOStack") > 0 =>
        /\ <<"InfiquetraSSOStack", "InfiquetraOrganizationStack">> \in dependencies
        /\ AppliedAt("InfiquetraOrganizationStack") > 0
        /\ AppliedAt("InfiquetraOrganizationStack") < AppliedAt("InfiquetraSSOStack")

\* valid repository configurations to compare a construction against
OtherRepositories ==
    { [github_owner |-> <<"infiquetra">>, repo_name |-> <<"infiquetra-aws-infra">>],
      [github_owner |-> <<"acme">>, repo_name |-> <<"widget">>],
      [github_owner |-> <<"octo">>, repo_name |-> <<"gadget">>] }

\* the stack attributes with another repository configuration in place
WithRepository(s, other) ==
    [s EXCEPT !.github_owner = other.github_owner,
              !.repo_name = other.repo_name,
              !.repo_full_name = RepoFullName(other.github_owner, other.repo_name)]

SubjectOfOwner(sub, owner) ==
    /\ Len(sub) >= 4
    /\ SubSeq(sub, 1, 4) = <<"repo", ":", owner, "/">>

\* the subject names a repository owner other than infiquetra
SubjectOfOtherOwner(sub) ==
    /\ Len(sub) >= 3
    /\ SubSeq(sub, 1, 2) = <<"repo", ":">>
    /\ sub[3] # "infiquetra"

RECURSIVE AtOrBelow(_, _, _, _)
AtOrBelow(units, targets, id, steps) ==
    IF id \in targets THEN TRUE
    ELSE IF steps = 0 THEN FALSE
    ELSE \E p \in ParentRefs(units, id) : AtOrBelow(units, targets, p, steps - 1)

\* the targets of the declared service-control policy with the given name
TargetsOf(name) ==
    UNION { Range(scps[i].target_ids) : i \in { j \in 1..Len(scps) : scps[j].name = name } }

\* the declared units with the given name
UnitsNamed(name) == { ous[i].logical_id : i \in { j \in 1..Len(ous) : ous[j].name = name } }

\* C28: every service-control policy has a non-empty target list made of
\* declared units only; the base security policy targets exactly the units
\* whose parent is the root (Core, Media, Apps, Consulting), so every declared
\* unit is one of its targets or below one; the non-production cost-control
\* policy targets exactly the NonProd unit, and no Production unit is at or
\* below a target of it.
C28_GovernanceCoverage ==
    /\ \A i \in 1..Len(scps) :
          /\ Len(scps[i].target_ids) > 0
          /\ Range(scps[i].target_ids) \subseteq UnitIds(ous)
    /\ (\E i \in 1..Len(scps) : scps[i].name = "BaseSecurityPolicy") =>
          /\ TargetsOf("BaseSecurityPolicy")
                = { ous[i].logical_id : i \in { j \in 1..Len(ous) : ous[j].parent_id = "r-f3un" } }
          /\ TargetsOf("BaseSecurityPolicy")
                = UnitsNamed("Core") \cup UnitsNamed("Media") \cup UnitsNamed("Apps")
                      \cup UnitsNamed("Consulting")
          /\ \A id \in UnitIds(ous) :
                AtOrBelow(ous, TargetsOf("BaseSecurityPolicy"), id, Len(ous))
    /\ (\E i \in 1..Len(scps) : scps[i].name = "NonProductionCostControl") =>
          /\ TargetsOf("NonProductionCostControl") = UnitsNamed("NonProd")
          /\ Cardinality(UnitsNamed("NonProd")) = 1
          /\ \A id \in UnitsNamed("Production") :
                ~AtOrBelow(ous, TargetsOf("NonProductionCostControl"), id, Len(ous))

\* both policies have just been declared over the complete tree
C28_Witness ==
    /\ pc = "create_outputs"
    /\ org_outputs = <<>>
    /\ Len(scps) = 2
    /\ Cardinality(TargetsOf("BaseSecurityPolicy")) = 4
    /\ UnitsNamed("Production") # {}

\* the value the claim gives to an identity field: the argument when it is a
\* non-empty string, otherwise the environment value when the variable is
\* set, otherwise the default
ClaimedResolution(arg, env, default) ==
    IF arg.some /\ arg.val # <<>> THEN arg.val
    ELSE IF env.some THEN env.val
    ELSE default

\* __init__ has resolved the repository identity
IdentityResolved ==
    /\ program # "organizations_app"
    /\ pc \notin {"app", "stack_init"}
    /\ error # <<"Account ID must be provided">>

\* C29: the owner is the github_owner argument when it is a non-empty string,
\* otherwise GITHUB_OWNER when set, otherwise "infiquetra" (likewise repo_name,
\* GITHUB_REPO, "infiquetra-aws-infra"), and repo_full_name is owner "/" repo;
\* a 'must be specified' error is raised only when the argument is absent or
\* empty and the environment variable is set to the empty string.
C29_RepositoryIdentityResolution ==
    /\ IdentityResolved =>
          /\ self.github_owner = ClaimedResolution(kwargs.github_owner, environ["GITHUB_OWNER"],
                                                   <<"infiquetra">>)
          /\ self.repo_name = ClaimedResolution(kwargs.repo_name, environ["GITHUB_REPO"],
                                                <<"infiquetra-aws-infra">>)
          /\ self.repo_full_name = self.github_owner \o <<"/">> \o self.repo_name
    /\ error = <<"GitHub owner must be specified">> =>
          /\ environ["GITHUB_OWNER"] = Some(<<>>)
          /\ kwargs.github_owner \in {None, Some(<<>>)}
    /\ error = <<"Repository name must be specified">> =>
          /\ environ["GITHUB_REPO"] = Some(<<>>)
          /\ kwargs.repo_name \in {None, Some(<<>>)}

\* empty-string arguments have fallen through, the owner to the environment
\* value and the repository name to the default, and the stack is synthesized
C29_Witness ==
    /\ pc = "done"
    /\ kwargs.github_owner = Some(<<>>)
    /\ kwargs.repo_name = Some(<<>>)
    /\ self.github_owner = <<"octo">>
    /\ self.repo_name = <<"infiquetra-aws-infra">>

\* names of CloudFormation stacks: the bootstrap stack, an Organizations and
\* an SSO stack, and a stack that is none of these
StackNames ==
    { <<"CDKToolkit">>, <<"Infiquetra", "-Organizations-", "Stack">>,
      <<"Infiquetra", "-SSO-", "Stack">>, <<"PayrollDatabase">> }

\* arn:aws:cloudformation:<region>:<account>:stack/<name>/<id>
StackArn(account, region, name) ==
    <<"arn", ":", "aws", ":", "cloudformation", ":">> \o region \o <<":">> \o account
        \o <<":", "stack", "/">> \o name \o <<"/", "0a1b2c3d">>

\* the pattern ...:stack/*/* of an account and a region
AnyStackPattern(account, region) ==
    <<"arn", ":", "aws", ":", "cloudformation", ":">> \o region \o <<":">> \o account
        \o <<":", "stack", "/", "*", "/", "*">>

\* the accounts and regions the stacks are in
StackPlaces ==
    { <<TestAccount, TestRegion>>, <<TestAccount, <<"eu-west-1">> >>,
      << <<"645166163764">>, <<"eu-west-1">> >>, << <<"645166163764">>, TestRegion>> }

\* the statements of the deployment policy that grant the stack actions
StackStatements ==
    { s \in UNION { Range(policies[i].statements) :
                       i \in { j \in 1..Len(policies) :
                                  policies[j].logical_id = "CDKDeploymentPolicy" } } :
         Act("cloudformation", "CreateStack") \in Range(s.actions) }

\* the statement lists the action by name
HasAction(statement, action) ==
    \E n \in 1..Len(statement.actions) : statement.actions[n] = action

\* the stacks of every name in every place
StackArns ==
    { [account |-> where[1], region |-> where[2], arn |-> StackArn(where[1], where[2], name)] :
         where \in StackPlaces, name \in StackNames }

\* the resource patterns of the statement, deployed to the account and region
Deployed(statement, account, region) ==
    { Resolve(r, account, region) : r \in Range(statement.resources) }

\* one of the deployed patterns covers the resource
Covers(patterns, arn) == \E p \in patterns : Like(p, arn)

Next ==
    \/ BootstrapApp
    \/ StackInit
    \/ ValidateConfiguration
    \/ CreateOidcProvider
    \/ CreateGithubActionsRole
    \/ CreateCdkDeploymentPolicy
    \/ CreateServerlessPolicy
    \/ CreateEventDrivenPolicy
    \/ CreateEdgeServicesPolicy
    \/ CreateDataAnalyticsPolicy
    \/ CreateSecurityPolicy
    \/ CreateInfrastructurePolicy
    \/ AddManagedPolicy
    \/ OutputRoleArn
    \/ OutputProviderArn
    \/ ApplyResourceTags
    \/ OrganizationsApp
    \/ OrganizationStackInit
    \/ CreateOrganizationalUnit
    \/ CreateServiceControlPolicy
    \/ CreateOrganizationOutput
    \/ SsoStackInit
    \/ CreatePermissionSet
    \/ CreateSsoOutput
    \/ ApplyAppTags
    \/ Synth
    \/ ApplyStack
    \/ AssumeRoleWithWebIdentity

Spec == Init /\ [][Next]_vars

====
